---- MODULE Spec2Model ----
(***************************************************************************)
(* Marble machine simulator: the graph model with its acyclicity           *)
(* validator, the seeded generator, the node behaviour registry and the    *)
(* tick engine, modelled from the TypeScript sources.                      *)
(*                                                                         *)
(* JavaScript Maps are modelled as sequences of <<key, value>> pairs in    *)
(* insertion order, because the engine iterates Maps in that order.        *)
(***************************************************************************)
EXTENDS Integers, Sequences, FiniteSets, TLC

\* ------------------------------------------------------------------------
\* Bounds of the model
\* ------------------------------------------------------------------------

\* Longest adjacency list the graph mutators are driven to build.
MaxAdjLen == 2

\* Node and edge identifiers offered to the graph mutators.
NodeIds == {"a", "b"}
EdgeIds == {"e1", "e2"}

\* ------------------------------------------------------------------------
\* JavaScript Map, as a sequence of <<key, value>> pairs (insertion order)
\* ------------------------------------------------------------------------

MapHas(m, k) == \E i \in 1..Len(m) : m[i][1] = k

MapIdx(m, k) == CHOOSE i \in 1..Len(m) : m[i][1] = k

MapGet(m, k) == m[MapIdx(m, k)][2]

\* Map.set keeps the position of an existing key and appends a new one.
MapSet(m, k, v) ==
  IF MapHas(m, k) THEN [m EXCEPT ![MapIdx(m, k)] = <<k, v>>]
  ELSE Append(m, <<k, v>>)

MapDelete(m, k) == SelectSeq(m, LAMBDA p : p[1] # k)

MapKeys(m) == [i \in 1..Len(m) |-> m[i][1]]

MapValues(m) == [i \in 1..Len(m) |-> m[i][2]]

MapKeySet(m) == {m[i][1] : i \in 1..Len(m)}

SeqToSet(s) == {s[i] : i \in 1..Len(s)}

\* ------------------------------------------------------------------------
\* Graph construction, validation and immutable mutation
\* ------------------------------------------------------------------------

createEmptyGraph == [nodes |-> <<>>, edges |-> <<>>, adjacency |-> <<>>]

RECURSIVE IndexNodes(_, _, _)
IndexNodes(nodes, i, acc) ==
  IF i > Len(nodes) THEN acc
  ELSE IndexNodes(nodes, i + 1, MapSet(acc, nodes[i].id, nodes[i]))

RECURSIVE InitAdjacency(_, _, _)
InitAdjacency(nodes, i, acc) ==
  IF i > Len(nodes) THEN acc
  ELSE InitAdjacency(nodes, i + 1, MapSet(acc, nodes[i].id, <<>>))

\* The edge loop of buildSimGraph: acc is [edges, adjacency].
RECURSIVE IndexEdges(_, _, _)
IndexEdges(edges, i, acc) ==
  IF i > Len(edges) THEN acc
  ELSE LET edge == edges[i]
           edgeMap == MapSet(acc.edges, edge.id, edge)
           adj == IF MapHas(acc.adjacency, edge.from)
                  THEN MapSet(acc.adjacency, edge.from,
                              Append(MapGet(acc.adjacency, edge.from), edge.id))
                  ELSE acc.adjacency
       IN IndexEdges(edges, i + 1, [edges |-> edgeMap, adjacency |-> adj])

buildSimGraph(nodes, edges) ==
  LET nodeMap == IndexNodes(nodes, 1, <<>>)
      adj0 == InitAdjacency(nodes, 1, <<>>)
      r == IndexEdges(edges, 1, [edges |-> <<>>, adjacency |-> adj0])
  IN [nodes |-> nodeMap, edges |-> r.edges, adjacency |-> r.adjacency]

\* An in-degree count that leaves out the edges from a node to itself.
RECURSIVE countWithoutSelfLoops(_, _, _)
countWithoutSelfLoops(edgeVals, i, inDegree) ==
  IF i > Len(edgeVals) THEN inDegree
  ELSE LET to == edgeVals[i].to
           old == IF MapHas(inDegree, to) THEN MapGet(inDegree, to) ELSE 0
       IN countWithoutSelfLoops(edgeVals, i + 1,
                                IF edgeVals[i].from = to THEN inDegree
                                ELSE MapSet(inDegree, to, old + 1))

\* inDegree.set(edge.to, (inDegree.get(edge.to) ?? 0) + 1) for every edge.
RECURSIVE CountInDegree(_, _, _)
CountInDegree(edgeVals, i, inDegree) ==
  IF i > Len(edgeVals) THEN inDegree
  ELSE LET to == edgeVals[i].to
           old == IF MapHas(inDegree, to) THEN MapGet(inDegree, to) ELSE 0
       IN CountInDegree(edgeVals, i + 1, MapSet(inDegree, to, old + 1))

\* The inner loop of Kahn's algorithm over the outgoing edge ids of one node.
RECURSIVE RelaxOutgoing(_, _, _, _, _)
RelaxOutgoing(graph, outgoing, i, queue, inDegree) ==
  IF i > Len(outgoing) THEN [queue |-> queue, inDegree |-> inDegree]
  ELSE IF ~MapHas(graph.edges, outgoing[i])
       THEN RelaxOutgoing(graph, outgoing, i + 1, queue, inDegree)
       ELSE LET edge == MapGet(graph.edges, outgoing[i])
                newDegree == (IF MapHas(inDegree, edge.to)
                              THEN MapGet(inDegree, edge.to) ELSE 1) - 1
                q2 == IF newDegree = 0 THEN Append(queue, edge.to) ELSE queue
            IN RelaxOutgoing(graph, outgoing, i + 1, q2,
                             MapSet(inDegree, edge.to, newDegree))

RECURSIVE KahnLoop(_, _, _, _)
KahnLoop(graph, queue, inDegree, visited) ==
  IF queue = <<>> THEN [visited |-> visited, inDegree |-> inDegree]
  ELSE LET current == Head(queue)
           outgoing == IF MapHas(graph.adjacency, current)
                       THEN MapGet(graph.adjacency, current) ELSE <<>>
           r == RelaxOutgoing(graph, outgoing, 1, Tail(queue), inDegree)
       IN KahnLoop(graph, r.queue, r.inDegree, visited + 1)

\* The failure carries one message; the message is modelled by the node ids
\* it lists ("Cycle detected involving nodes: <ids joined by ', '>").
validateDAG(graph) ==
  LET zeros == [i \in 1..Len(graph.nodes) |-> <<graph.nodes[i][1], 0>>]
      inDegree0 == CountInDegree(MapValues(graph.edges), 1, zeros)
      queue0 == MapKeys(SelectSeq(inDegree0, LAMBDA p : p[2] = 0))
      r == KahnLoop(graph, queue0, inDegree0, 0)
  IN IF r.visited = Len(graph.nodes)
     THEN [valid |-> TRUE]
     ELSE [valid |-> FALSE,
           errors |-> <<MapKeys(SelectSeq(r.inDegree, LAMBDA p : p[2] > 0))>>]

addNode(graph, node) ==
  [graph EXCEPT
     !.nodes = MapSet(graph.nodes, node.id, node),
     !.adjacency = IF MapHas(graph.adjacency, node.id) THEN graph.adjacency
                   ELSE MapSet(graph.adjacency, node.id, <<>>)]

\* A removal that forgets the edges ending at the node.
removeNodeOutgoingOnly(graph, nodeId) ==
  LET edgesToRemove ==
        {graph.edges[i][1] : i \in {j \in 1..Len(graph.edges) :
             graph.edges[j][2].from = nodeId}}
      kept == SelectSeq(graph.adjacency, LAMBDA p : p[1] # nodeId)
  IN [nodes |-> MapDelete(graph.nodes, nodeId),
      edges |-> SelectSeq(graph.edges, LAMBDA p : p[1] \notin edgesToRemove),
      adjacency |-> [i \in 1..Len(kept) |->
                       <<kept[i][1],
                         SelectSeq(kept[i][2], LAMBDA eid : eid \notin edgesToRemove)>>]]

removeNode(graph, nodeId) ==
  LET edgesToRemove ==
        {graph.edges[i][1] : i \in {j \in 1..Len(graph.edges) :
             graph.edges[j][2].from = nodeId \/ graph.edges[j][2].to = nodeId}}
      kept == SelectSeq(graph.adjacency, LAMBDA p : p[1] # nodeId)
  IN [nodes |-> MapDelete(graph.nodes, nodeId),
      edges |-> SelectSeq(graph.edges, LAMBDA p : p[1] \notin edgesToRemove),
      adjacency |-> [i \in 1..Len(kept) |->
                       <<kept[i][1],
                         SelectSeq(kept[i][2], LAMBDA eid : eid \notin edgesToRemove)>>]]

\* The candidate graph addEdge validates.
addEdgeCandidate(graph, edge) ==
  LET list == Append(IF MapHas(graph.adjacency, edge.from)
                     THEN MapGet(graph.adjacency, edge.from) ELSE <<>>, edge.id)
  IN [graph EXCEPT !.edges = MapSet(graph.edges, edge.id, edge),
                   !.adjacency = MapSet(graph.adjacency, edge.from, list)]

\* Returns SimGraph | ValidationResult; isGraph models the `'nodes' in result` test.
addEdge(graph, edge) ==
  LET candidate == addEdgeCandidate(graph, edge)
      validation == validateDAG(candidate)
  IN IF ~validation.valid
     THEN [isGraph |-> FALSE, valid |-> FALSE, errors |-> validation.errors]
     ELSE [isGraph |-> TRUE, graph |-> candidate]

removeEdge(graph, edgeId) ==
  IF ~MapHas(graph.edges, edgeId) THEN graph
  ELSE LET edge == MapGet(graph.edges, edgeId)
       IN [graph EXCEPT
             !.edges = MapDelete(graph.edges, edgeId),
             !.adjacency =
                IF MapHas(graph.adjacency, edge.from)
                THEN MapSet(graph.adjacency, edge.from,
                            SelectSeq(MapGet(graph.adjacency, edge.from),
                                      LAMBDA eid : eid # edgeId))
                ELSE graph.adjacency]

\* ------------------------------------------------------------------------
\* Seeded generator (mulberry32)
\*
\* A 32-bit word is the pair <<hi, lo>> of its 16-bit halves, so that no
\* intermediate value leaves the checker's integer range.
\* ------------------------------------------------------------------------

Half == 65536

RECURSIVE Xor16(_, _, _)
Xor16(x, y, n) ==
  IF n = 0 THEN 0
  ELSE ((x + y) % 2) + 2 * Xor16(x \div 2, y \div 2, n - 1)

RECURSIVE Or16(_, _, _)
Or16(x, y, n) ==
  IF n = 0 THEN 0
  ELSE (IF x % 2 = 1 \/ y % 2 = 1 THEN 1 ELSE 0) + 2 * Or16(x \div 2, y \div 2, n - 1)

Xor32(a, b) == <<Xor16(a[1], b[1], 16), Xor16(a[2], b[2], 16)>>

\* t | c for a constant c below 2^16.
OrLow(a, c) == <<a[1], Or16(a[2], c, 16)>>

RECURSIVE Pow2(_)
Pow2(k) == IF k = 0 THEN 1 ELSE 2 * Pow2(k - 1)

\* t >>> k for 0 < k < 16.
Shr32(a, k) ==
  <<a[1] \div Pow2(k), (a[2] \div Pow2(k)) + (a[1] % Pow2(k)) * Pow2(16 - k)>>

\* (a + b) | 0
Add32(a, b) ==
  LET lo == a[2] + b[2]
  IN <<(a[1] + b[1] + lo \div Half) % Half, lo % Half>>

\* Math.imul(a, b): the low 32 bits of the product, byte by byte.
Imul32(a, b) ==
  LET a0 == a[2] % 256  a1 == a[2] \div 256  a2 == a[1] % 256  a3 == a[1] \div 256
      b0 == b[2] % 256  b1 == b[2] \div 256  b2 == b[1] % 256  b3 == b[1] \div 256
      c0 == a0 * b0
      c1 == a0 * b1 + a1 * b0 + c0 \div 256
      c2 == a0 * b2 + a1 * b1 + a2 * b0 + c1 \div 256
      c3 == a0 * b3 + a1 * b2 + a2 * b1 + a3 * b0 + c2 \div 256
  IN <<(c3 % 256) * 256 + (c2 % 256), (c1 % 256) * 256 + (c0 % 256)>>

\* createRng(seed) for 0 <= seed < 2^16: seed | 0.
createRng(seed) == [state |-> <<0, seed>>]

\* 0x6d2b79f5
Increment == <<27947, 31221>>

\* nextFloat returns [value, nextState]; value is the 32-bit word v that the
\* code divides by 4294967296.
nextFloat(rng) ==
  LET t0 == Add32(rng.state, Increment)
      t1 == Imul32(Xor32(t0, Shr32(t0, 15)), OrLow(t0, 1))
      t2 == Xor32(t1, Add32(t1, Imul32(Xor32(t1, Shr32(t1, 7)), OrLow(t1, 61))))
  IN [value |-> Xor32(t2, Shr32(t2, 14)), next |-> [state |-> t0]]

\* A comparison the other way round.
rollNotBelow(value, ratio) == value[1] >= ratio

\* roll < ratio, for a ratio given in 65536ths: v / 2^32 < r / 2^16.
RollBelow(value, ratio) == value[1] < ratio

\* ------------------------------------------------------------------------
\* Program constants
\*
\* Progress and speed are counted in units of DEFAULT_MARBLE_SPEED (0.02):
\* fifty additions of 0.02 are the first to reach 1.0 in IEEE doubles, as in
\* exact arithmetic, so progress 1.0 is ArrivalProgress units.
\* ------------------------------------------------------------------------

DEFAULT_MARBLE_SPEED == 1

ArrivalProgress == 50

MAX_MARBLES == 1000

PERIODIC_TYPES == {"gate", "basin", "signalBuffer"}

\* ------------------------------------------------------------------------
\* Canvas fill patterns (rows and columns are 0-based, as in the code)
\* ------------------------------------------------------------------------

Max(a, b) == IF a > b THEN a ELSE b

Min(a, b) == IF a < b THEN a ELSE b

\* The cells spiralPosition visits, in order, for the remaining rectangle.
RECURSIVE SpiralCells(_, _, _, _)
SpiralCells(top, bottom, left, right) ==
  IF ~(top <= bottom /\ left <= right) THEN <<>>
  ELSE LET across == [c \in 1..(right - left + 1) |-> [row |-> top, col |-> left + c - 1]]
           top2 == top + 1
           down == [r \in 1..Max(0, bottom - top2 + 1) |-> [row |-> top2 + r - 1, col |-> right]]
           right2 == right - 1
           back == IF top2 <= bottom
                   THEN [c \in 1..Max(0, right2 - left + 1) |-> [row |-> bottom, col |-> right2 - c + 1]]
                   ELSE <<>>
           bottom2 == IF top2 <= bottom THEN bottom - 1 ELSE bottom
           up == IF left <= right2
                 THEN [r \in 1..Max(0, bottom2 - top2 + 1) |-> [row |-> bottom2 - r + 1, col |-> left]]
                 ELSE <<>>
           left2 == IF left <= right2 THEN left + 1 ELSE left
       IN across \o down \o back \o up \o SpiralCells(top2, bottom2, left2, right2)

\* The spiral with rows and columns exchanged: down the left side first.
spiralByColumns(index, width, height) ==
  LET cells == SpiralCells(0, width - 1, 0, height - 1)
  IN IF index >= 0 /\ index < Len(cells)
     THEN [row |-> cells[index + 1].col, col |-> cells[index + 1].row]
     ELSE [row |-> 0, col |-> 0]

spiralPosition(index, width, height) ==
  LET cells == SpiralCells(0, height - 1, 0, width - 1)
  IN IF index >= 0 /\ index < Len(cells) THEN cells[index + 1] ELSE [row |-> 0, col |-> 0]

\* A column-major order that takes the width for the column length.
columnsByWidth(cursor, width, height, pattern) ==
  CASE pattern = "left-to-right" -> [row |-> cursor \div width, col |-> cursor % width]
    [] pattern = "s-shaped" ->
         LET row == cursor \div width
             colInRow == cursor % width
         IN [row |-> row, col |-> IF row % 2 = 0 THEN colInRow ELSE width - 1 - colInRow]
    [] pattern = "top-to-bottom" -> [row |-> cursor % width, col |-> cursor \div width]
    [] pattern = "spiral" -> spiralPosition(cursor, width, height)

cursorToGridPosition(cursor, width, height, pattern) ==
  CASE pattern = "left-to-right" -> [row |-> cursor \div width, col |-> cursor % width]
    [] pattern = "s-shaped" ->
         LET row == cursor \div width
             colInRow == cursor % width
         IN [row |-> row, col |-> IF row % 2 = 0 THEN colInRow ELSE width - 1 - colInRow]
    [] pattern = "top-to-bottom" -> [row |-> cursor % height, col |-> cursor \div height]
    [] pattern = "spiral" -> spiralPosition(cursor, width, height)

createEmptyGrid(width, height) == [r \in 1..height |-> [c \in 1..width |-> "null"]]

\* ------------------------------------------------------------------------
\* Node behaviour registry
\*
\* A handler takes the state being built, the node, and the arriving marbles
\* and returns the state it leaves.  Inside a tick every marble carries `ref`,
\* its object identity: indexOf and in-place updates go by identity.
\* ------------------------------------------------------------------------

GetNode(state, nodeId) == MapGet(state.graph.nodes, nodeId)

SetNode(state, node) == [state EXCEPT !.graph.nodes = MapSet(state.graph.nodes, node.id, node)]

\* idx = marbles.indexOf(marble); if (idx !== -1) marbles.splice(idx, 1)
RemoveMarble(state, marble) ==
  [state EXCEPT !.marbles = SelectSeq(state.marbles, LAMBDA x : x.ref # marble.ref)]

\* marble.edgeId = edgeId; marble.progress = 0
MoveMarble(state, marble, edgeId) ==
  [state EXCEPT !.marbles =
     [i \in 1..Len(state.marbles) |->
        IF state.marbles[i].ref = marble.ref
        THEN [state.marbles[i] EXCEPT !.edgeId = edgeId, !.progress = 0]
        ELSE state.marbles[i]]]

RECURSIVE MoveAll(_, _, _, _)
MoveAll(state, arrivals, i, edgeId) ==
  IF i > Len(arrivals) THEN state
  ELSE MoveAll(MoveMarble(state, arrivals[i], edgeId), arrivals, i + 1, edgeId)

RECURSIVE RemoveAll(_, _, _)
RemoveAll(state, arrivals, i) ==
  IF i > Len(arrivals) THEN state
  ELSE RemoveAll(RemoveMarble(state, arrivals[i]), arrivals, i + 1)

\* state.marbles.push({id, edgeId, progress: 0, speed: DEFAULT_MARBLE_SPEED, color})
PushMarble(state, id, edgeId, color) ==
  [state EXCEPT !.marbles =
     Append(state.marbles, [id |-> id, edgeId |-> edgeId, progress |-> 0,
                            speed |-> DEFAULT_MARBLE_SPEED, color |-> color, ref |-> 0])]

\* held: a sequence of [id, color]
RECURSIVE PushHeld(_, _, _, _)
PushHeld(state, held, i, edgeId) ==
  IF i > Len(held) THEN state
  ELSE PushHeld(PushMarble(state, held[i].id, edgeId, held[i].color), held, i + 1, edgeId)

\* `m-${state.tickCount}-${nodeId}-${state.marbles.length}`, kept as its parts.
\* An id that leaves the length of the marble list out.
idWithoutLength(state, nodeId) == <<"m", state.tickCount, nodeId, 0>>

generateMarbleId(state, nodeId) == <<"m", state.tickCount, nodeId, Len(state.marbles)>>

getOutgoingEdges(state, nodeId) ==
  LET edgeIds == IF MapHas(state.graph.adjacency, nodeId)
                 THEN MapGet(state.graph.adjacency, nodeId) ELSE <<>>
      present == SelectSeq(edgeIds, LAMBDA eid : MapHas(state.graph.edges, eid))
  IN [i \in 1..Len(present) |-> MapGet(state.graph.edges, present[i])]

\* The spawn with the node id where the edge id belongs.
spawnMarbleOnNode(state, edgeId, nodeId, color) ==
  PushMarble(state, generateMarbleId(state, nodeId), nodeId, color)

spawnMarbleOnEdge(state, edgeId, nodeId, color) ==
  PushMarble(state, generateMarbleId(state, nodeId), edgeId, color)

RECURSIVE SpawnTimes(_, _, _, _)
SpawnTimes(state, n, edgeId, nodeId) ==
  IF n <= 0 THEN state
  ELSE SpawnTimes(spawnMarbleOnEdge(state, edgeId, nodeId, "white"), n - 1, edgeId, nodeId)

\* A cooldown of spawnRate steps in place of 60 / spawnRate.
cooldownIsRate(spawnRate) == spawnRate

\* Math.round(60 / spawnRate) for a whole spawnRate: floor(60 / r + 1/2).
RoundedCooldown(spawnRate) == (120 + spawnRate) \div (2 * spawnRate)

\* A source that spawns without starting its cooldown again.
handleSourceNoReset(state, node, arrivals) ==
  LET edges == getOutgoingEdges(state, node.id)
  IN IF Len(edges) = 0 THEN state
     ELSE LET mutableNode == GetNode(state, node.id)
              cooldown == mutableNode.spawnCooldown - 1
              s1 == IF cooldown <= 0
                    THEN SetNode(spawnMarbleOnEdge(state, edges[1].id, node.id,
                                                   mutableNode.marbleColor),
                                 [mutableNode EXCEPT !.spawnCooldown = cooldown])
                    ELSE SetNode(state, [mutableNode EXCEPT !.spawnCooldown = cooldown])
          IN MoveAll(s1, arrivals, 1, edges[1].id)

handleSource(state, node, arrivals) ==
  LET edges == getOutgoingEdges(state, node.id)
  IN IF Len(edges) = 0 THEN state
     ELSE LET mutableNode == GetNode(state, node.id)
              cooldown == mutableNode.spawnCooldown - 1
              s1 == IF cooldown <= 0
                    THEN SetNode(spawnMarbleOnEdge(state, edges[1].id, node.id,
                                                   mutableNode.marbleColor),
                                 [mutableNode EXCEPT
                                    !.spawnCooldown = RoundedCooldown(mutableNode.spawnRate)])
                    ELSE SetNode(state, [mutableNode EXCEPT !.spawnCooldown = cooldown])
          IN MoveAll(s1, arrivals, 1, edges[1].id)

\* A sink that counts one per evaluation, whatever the number of arrivals.
sinkCountsEvaluations(state, node, arrivals) ==
  LET mutableNode == GetNode(state, node.id)
  IN RemoveAll(SetNode(state, [mutableNode EXCEPT !.consumed = @ + 1]), arrivals, 1)

handleSink(state, node, arrivals) ==
  LET mutableNode == GetNode(state, node.id)
  IN RemoveAll(SetNode(state, [mutableNode EXCEPT !.consumed = @ + Len(arrivals)]),
               arrivals, 1)

\* A splitter that draws without keeping the generator's next state.
RECURSIVE splitAllSameDraw(_, _, _, _, _)
splitAllSameDraw(state, node, arrivals, i, edges) ==
  IF i > Len(arrivals) THEN state
  ELSE LET draw == nextFloat(state.rng)
           chosenEdge == IF RollBelow(draw.value, node.ratio) THEN edges[1] ELSE edges[2]
       IN splitAllSameDraw(MoveMarble(state, arrivals[i], chosenEdge.id), node, arrivals,
                           i + 1, edges)

RECURSIVE SplitAll(_, _, _, _, _)
SplitAll(state, node, arrivals, i, edges) ==
  IF i > Len(arrivals) THEN state
  ELSE LET draw == nextFloat(state.rng)
           chosenEdge == IF RollBelow(draw.value, node.ratio) THEN edges[1] ELSE edges[2]
           s1 == [state EXCEPT !.rng = draw.next]
       IN SplitAll(MoveMarble(s1, arrivals[i], chosenEdge.id), node, arrivals, i + 1, edges)

handleSplitter(state, node, arrivals) ==
  LET edges == getOutgoingEdges(state, node.id)
  IN IF Len(edges) < 2
     THEN IF Len(edges) >= 1 THEN MoveAll(state, arrivals, 1, edges[1].id) ELSE state
     ELSE SplitAll(state, node, arrivals, 1, edges)

handleElevator(state, node, arrivals) ==
  LET mutableNode == GetNode(state, node.id)
      edges == getOutgoingEdges(state, mutableNode.id)
      s1 == RemoveAll(state, arrivals, 1)
      queued == mutableNode.queue \o
                [i \in 1..Len(arrivals) |->
                   [marbleId |-> arrivals[i].id, ticksRemaining |-> mutableNode.delay,
                    color |-> arrivals[i].color]]
      ticked == [i \in 1..Len(queued) |->
                   [queued[i] EXCEPT !.ticksRemaining = @ - 1]]
      due == SelectSeq(ticked, LAMBDA item : item.ticksRemaining <= 0)
      released == [i \in 1..Len(due) |-> [id |-> due[i].marbleId, color |-> due[i].color]]
      s2 == SetNode(s1, [mutableNode EXCEPT
                           !.queue = SelectSeq(ticked, LAMBDA item : item.ticksRemaining > 0)])
  IN IF Len(edges) >= 1 THEN PushHeld(s2, released, 1, edges[1].id) ELSE s2

handleRamp(state, node, arrivals) ==
  LET edges == getOutgoingEdges(state, node.id)
  IN IF Len(edges) >= 1 THEN MoveAll(state, arrivals, 1, edges[1].id) ELSE state

\* The square wave with its halves exchanged.
conditionStepLateHalf(state, mutableNode, arrivals) ==
  LET cond == mutableNode.condition
  IN CASE cond.kind = "tickInterval" ->
            [mutableNode EXCEPT !.isOpen = 2 * (state.tickCount % cond.period) >= cond.period]
       [] cond.kind = "marbleCount" ->
            IF cond.arrivedCount + Len(arrivals) >= cond.threshold
            THEN [mutableNode EXCEPT !.isOpen = TRUE, !.condition.arrivedCount = 0]
            ELSE [mutableNode EXCEPT !.condition.arrivedCount = @ + Len(arrivals)]
       [] cond.kind = "manual" -> mutableNode

\* The switch on the gate's condition: the node with isOpen and the arrival
\* counter updated.
GateConditionStep(state, mutableNode, arrivals) ==
  LET cond == mutableNode.condition
  IN CASE cond.kind = "tickInterval" ->
            [mutableNode EXCEPT !.isOpen = 2 * (state.tickCount % cond.period) < cond.period]
       [] cond.kind = "marbleCount" ->
            IF cond.arrivedCount + Len(arrivals) >= cond.threshold
            THEN [mutableNode EXCEPT !.isOpen = TRUE, !.condition.arrivedCount = 0]
            ELSE [mutableNode EXCEPT !.condition.arrivedCount = @ + Len(arrivals)]
       [] cond.kind = "manual" -> mutableNode

HeldOf(arrivals) ==
  [i \in 1..Len(arrivals) |-> [id |-> arrivals[i].id, color |-> arrivals[i].color]]

\* Arrivals put at the head of the queue.
holdArrivalsFirst(heldMarbles, arrivals) == HeldOf(arrivals) \o heldMarbles

\* heldMarbles.push({id, color}) for each arrival
HoldArrivals(heldMarbles, arrivals) == heldMarbles \o HeldOf(arrivals)

\* The gate left open after its release.
handleGateStaysOpen(state, node, arrivals) ==
  LET edges == getOutgoingEdges(state, node.id)
      n1 == GateConditionStep(state, GetNode(state, node.id), arrivals)
      n2 == [n1 EXCEPT !.heldMarbles = HoldArrivals(@, arrivals)]
      s1 == RemoveAll(state, arrivals, 1)
  IN IF n2.isOpen /\ Len(edges) >= 1
     THEN SetNode(PushHeld(s1, n2.heldMarbles, 1, edges[1].id),
                  [n2 EXCEPT !.heldMarbles = <<>>])
     ELSE SetNode(s1, n2)

handleGate(state, node, arrivals) ==
  LET edges == getOutgoingEdges(state, node.id)
      n1 == GateConditionStep(state, GetNode(state, node.id), arrivals)
      n2 == [n1 EXCEPT !.heldMarbles = HoldArrivals(@, arrivals)]
      s1 == RemoveAll(state, arrivals, 1)
  IN IF n2.isOpen /\ Len(edges) >= 1
     THEN SetNode(PushHeld(s1, n2.heldMarbles, 1, edges[1].id),
                  [n2 EXCEPT !.heldMarbles = <<>>,
                             !.isOpen = IF n2.condition.kind = "marbleCount" THEN FALSE ELSE @])
     ELSE SetNode(s1, n2)

\* Everything counted so far goes out.
releaseWholeFill(mutableNode, fill) == fill

\* How many marbles a full bucket spawns: capacity in 'all' mode, the excess
\* in 'overflow' mode.
ReleaseCount(mutableNode, fill) ==
  IF mutableNode.releaseMode = "all" THEN mutableNode.capacity
  ELSE fill - mutableNode.capacity

handleBucket(state, node, arrivals) ==
  LET mutableNode == GetNode(state, node.id)
      edges == getOutgoingEdges(state, mutableNode.id)
      s1 == RemoveAll(state, arrivals, 1)
      fill == mutableNode.currentFill + Len(arrivals)
  IN IF fill >= mutableNode.capacity /\ Len(edges) >= 1
     THEN SetNode(SpawnTimes(s1, ReleaseCount(mutableNode, fill), edges[1].id, mutableNode.id),
                  [mutableNode EXCEPT !.currentFill =
                     IF mutableNode.releaseMode = "all" THEN 0 ELSE mutableNode.capacity])
     ELSE SetNode(s1, [mutableNode EXCEPT !.currentFill = fill])

\* contents[color] = (contents[color] ?? 0) + 1 for every arrival; contents
\* is a sequence of <<color, count>> in key order, as Object.entries reads it.
RECURSIVE Absorb(_, _, _)
Absorb(contents, arrivals, i) ==
  IF i > Len(arrivals) THEN contents
  ELSE LET c == arrivals[i].color
           old == IF MapHas(contents, c) THEN MapGet(contents, c) ELSE 0
       IN Absorb(MapSet(contents, c, old + 1), arrivals, i + 1)

CountOf(contents, c) == IF MapHas(contents, c) THEN MapGet(contents, c) ELSE 0

\* The colour handleBasin extracts, or "null".
ColorToExtract(contents, targetColor) ==
  IF targetColor # "null" /\ CountOf(contents, targetColor) > 0 THEN targetColor
  ELSE IF targetColor = "null"
       THEN LET available == SelectSeq(contents, LAMBDA p : p[2] > 0)
            IN IF Len(available) > 0 THEN available[1][1] ELSE "null"
       ELSE "null"

handleBasin(state, node, arrivals) ==
  LET mutableNode == GetNode(state, node.id)
      edges == getOutgoingEdges(state, mutableNode.id)
      s1 == RemoveAll(state, arrivals, 1)
      n1 == [mutableNode EXCEPT !.contents = Absorb(mutableNode.contents, arrivals, 1)]
  IN IF Len(edges) = 0 THEN SetNode(s1, n1)
     ELSE IF n1.extractCooldown - 1 > 0
          THEN SetNode(s1, [n1 EXCEPT !.extractCooldown = @ - 1])
          ELSE LET n2 == [n1 EXCEPT !.extractCooldown = n1.extractRate]
                   colorToExtract == ColorToExtract(n2.contents, n2.extractColor)
               IN IF colorToExtract = "null" THEN SetNode(s1, n2)
                  ELSE spawnMarbleOnEdge(
                         SetNode(s1, [n2 EXCEPT !.contents =
                                        MapSet(n2.contents, colorToExtract,
                                               CountOf(n2.contents, colorToExtract) - 1)]),
                         edges[1].id, mutableNode.id, colorToExtract)

\* edgeByHandle.set(edge.fromHandle, edge) for each outgoing edge, in order.
RECURSIVE EdgeByHandle(_, _, _)
EdgeByHandle(edges, i, acc) ==
  IF i > Len(edges) THEN acc
  ELSE EdgeByHandle(edges, i + 1, MapSet(acc, edges[i].fromHandle, edges[i]))

RECURSIVE RouteByColor(_, _, _, _, _)
RouteByColor(state, node, arrivals, i, edgeByHandle) ==
  IF i > Len(arrivals) THEN state
  ELSE LET marble == arrivals[i]
           mapped == MapHas(node.outputMap, marble.color)
                     /\ MapHas(edgeByHandle, MapGet(node.outputMap, marble.color))
           s1 == IF mapped
                 THEN MoveMarble(state, marble,
                                 MapGet(edgeByHandle, MapGet(node.outputMap, marble.color)).id)
                 ELSE RemoveMarble(state, marble)
       IN RouteByColor(s1, node, arrivals, i + 1, edgeByHandle)

handleColorSplitter(state, node, arrivals) ==
  LET edges == getOutgoingEdges(state, node.id)
  IN RouteByColor(state, node, arrivals, 1, EdgeByHandle(edges, 1, <<>>))

\* A queue without capacity check.
enqueueAll(held, arrivals, i, maxCapacity) ==
  held \o [k \in 1..Len(arrivals) |-> [id |-> arrivals[k].id, color |-> arrivals[k].color]]

\* Arrivals are queued while the queue is below maxCapacity, else dropped.
RECURSIVE Enqueue(_, _, _, _)
Enqueue(held, arrivals, i, maxCapacity) ==
  IF i > Len(arrivals) THEN held
  ELSE Enqueue(IF Len(held) < maxCapacity
               THEN Append(held, [id |-> arrivals[i].id, color |-> arrivals[i].color])
               ELSE held,
               arrivals, i + 1, maxCapacity)

\* A buffer that keeps its release count after releasing.
bufferKeepsReleaseCount(state, node, arrivals) ==
  LET mutableNode == GetNode(state, node.id)
      edges == getOutgoingEdges(state, mutableNode.id)
      s1 == RemoveAll(state, arrivals, 1)
      held == Enqueue(mutableNode.heldMarbles, arrivals, 1, mutableNode.maxCapacity)
  IN IF mutableNode.releaseCount > 0 /\ Len(edges) >= 1
     THEN LET toRelease == Min(mutableNode.releaseCount, Len(held))
              released == SubSeq(held, 1, toRelease)
          IN SetNode(PushHeld(s1, released, 1, edges[1].id),
                     [mutableNode EXCEPT !.heldMarbles = SubSeq(held, toRelease + 1, Len(held))])
     ELSE SetNode(s1, [mutableNode EXCEPT !.heldMarbles = held])

handleSignalBuffer(state, node, arrivals) ==
  LET mutableNode == GetNode(state, node.id)
      edges == getOutgoingEdges(state, mutableNode.id)
      s1 == RemoveAll(state, arrivals, 1)
      held == Enqueue(mutableNode.heldMarbles, arrivals, 1, mutableNode.maxCapacity)
  IN IF mutableNode.releaseCount > 0 /\ Len(edges) >= 1
     THEN LET toRelease == Min(mutableNode.releaseCount, Len(held))
              released == SubSeq(held, 1, toRelease)
          IN SetNode(PushHeld(s1, released, 1, edges[1].id),
                     [mutableNode EXCEPT !.heldMarbles = SubSeq(held, toRelease + 1, Len(held)),
                                         !.releaseCount = 0])
     ELSE SetNode(s1, [mutableNode EXCEPT !.heldMarbles = held])

\* if (grid[row]) grid[row][col] = color
SetCell(grid, row, col, color) ==
  IF row + 1 \in 1..Len(grid) /\ col + 1 \in 1..Len(grid[row + 1])
  THEN [grid EXCEPT ![row + 1][col + 1] = color]
  ELSE grid

RECURSIVE Paint(_, _, _)
Paint(canvas, arrivals, i) ==
  IF i > Len(arrivals) THEN canvas
  ELSE IF canvas.cursor >= canvas.width * canvas.height
       THEN Paint(canvas, arrivals, i + 1)
       ELSE LET pos == cursorToGridPosition(canvas.cursor, canvas.width, canvas.height,
                                            canvas.fillPattern)
            IN Paint([canvas EXCEPT !.grid = SetCell(canvas.grid, pos.row, pos.col,
                                                     arrivals[i].color),
                                    !.cursor = @ + 1],
                     arrivals, i + 1)

handleCanvas(state, node, arrivals) ==
  SetNode(RemoveAll(state, arrivals, 1), Paint(GetNode(state, node.id), arrivals, 1))

\* handlers[node.type]({state, arrivals, node})
handlers(state, node, arrivals) ==
  CASE node.type = "source" -> handleSource(state, node, arrivals)
    [] node.type = "sink" -> handleSink(state, node, arrivals)
    [] node.type = "splitter" -> handleSplitter(state, node, arrivals)
    [] node.type = "elevator" -> handleElevator(state, node, arrivals)
    [] node.type = "ramp" -> handleRamp(state, node, arrivals)
    [] node.type = "gate" -> handleGate(state, node, arrivals)
    [] node.type = "bucket" -> handleBucket(state, node, arrivals)
    [] node.type = "basin" -> handleBasin(state, node, arrivals)
    [] node.type = "colorSplitter" -> handleColorSplitter(state, node, arrivals)
    [] node.type = "signalBuffer" -> handleSignalBuffer(state, node, arrivals)
    [] node.type = "canvas" -> handleCanvas(state, node, arrivals)

\* ------------------------------------------------------------------------
\* Controller: the script is modelled as the sequence of API calls it makes,
\* a "throw" entry being the point where it raises.
\* ------------------------------------------------------------------------

NodeIs(state, nodeId, type) ==
  MapHas(state.graph.nodes, nodeId) /\ GetNode(state, nodeId).type = type

extractFromBasin(state, nodeId, color) ==
  IF ~NodeIs(state, nodeId, "basin") THEN state
  ELSE IF CountOf(GetNode(state, nodeId).contents, color) > 0
       THEN SetNode(state, [GetNode(state, nodeId) EXCEPT !.extractColor = color,
                                                          !.extractCooldown = 0])
       ELSE state

releaseBuffer(state, nodeId, count) ==
  IF ~NodeIs(state, nodeId, "signalBuffer") THEN state
  ELSE SetNode(state, [GetNode(state, nodeId) EXCEPT !.releaseCount = Max(0, count)])

setBasinExtractColor(state, nodeId, color) ==
  IF ~NodeIs(state, nodeId, "basin") THEN state
  ELSE SetNode(state, [GetNode(state, nodeId) EXCEPT !.extractColor = color])

RECURSIVE RunScript(_, _, _)
RunScript(state, code, i) ==
  IF i > Len(code) THEN [state EXCEPT !.controllerError = "null"]
  ELSE LET c == code[i]
       IN CASE c.call = "throw" -> [state EXCEPT !.controllerError = c.message]
            [] c.call = "throwString" -> [state EXCEPT !.controllerError = "undefined"]
            [] c.call = "throwNull" -> state
            [] c.call = "extractFromBasin" ->
                 RunScript(extractFromBasin(state, c.nodeId, c.color), code, i + 1)
            [] c.call = "releaseBuffer" ->
                 RunScript(releaseBuffer(state, c.nodeId, c.count), code, i + 1)
            [] c.call = "setBasinExtractColor" ->
                 RunScript(setBasinExtractColor(state, c.nodeId, c.color), code, i + 1)

executeController(state) ==
  IF state.controllerCode = <<>> THEN state ELSE RunScript(state, state.controllerCode, 1)

\* The catch block reads (e as Error).message: of an Error the message, of a
\* thrown string undefined, and of a thrown null nothing, for the read itself
\* throws a TypeError that leaves executeController.
ScriptEscapes(code) ==
  \E i \in 1..Len(code) :
    /\ code[i].call = "throwNull"
    /\ \A j \in 1..(i - 1) : code[j].call \notin {"throw", "throwString", "throwNull"}

executeControllerThrows(state) ==
  state.controllerCode # <<>> /\ ScriptEscapes(state.controllerCode)

\* ------------------------------------------------------------------------
\* Tick engine
\* ------------------------------------------------------------------------

advanceMarbles(state) ==
  [state EXCEPT !.marbles =
     [i \in 1..Len(state.marbles) |->
        [state.marbles[i] EXCEPT !.progress = @ + state.marbles[i].speed]]]

\* The first loop of processArrivals builds arrivalsByNode, a Map from node
\* id to the marbles that arrived there.  Arrived: the marbles the loop does
\* not skip, in marble-list order.
Arrived(state) ==
  SelectSeq(state.marbles,
            LAMBDA marble : /\ marble.progress >= ArrivalProgress
                            /\ MapHas(state.graph.edges, marble.edgeId))

\* edge.to of each arrived marble
ArrivalTargets(state, arrived) ==
  [i \in 1..Len(arrived) |-> MapGet(state.graph.edges, arrived[i].edgeId).to]

\* Map keys keep the order of their first insertion.
FirstIndices(targets) ==
  SelectSeq([i \in 1..Len(targets) |-> i],
            LAMBDA i : \A j \in 1..(i - 1) : targets[j] # targets[i])

IndicesTo(targets, nodeId) ==
  SelectSeq([i \in 1..Len(targets) |-> i], LAMBDA i : targets[i] = nodeId)

PickMarbles(arrived, indices) == [k \in 1..Len(indices) |-> arrived[indices[k]]]

GroupByTarget(arrived, targets, first) ==
  [k \in 1..Len(first) |->
     <<targets[first[k]], PickMarbles(arrived, IndicesTo(targets, targets[first[k]]))>>]

GroupTargets(arrived, targets) == GroupByTarget(arrived, targets, FirstIndices(targets))

GroupArrived(state, arrived) == GroupTargets(arrived, ArrivalTargets(state, arrived))

GroupArrivals(state) == GroupArrived(state, Arrived(state))

\* The second loop: acc is [state, processedNodes].
RECURSIVE DispatchArrivals(_, _, _)
DispatchArrivals(arrivalsByNode, i, acc) ==
  IF i > Len(arrivalsByNode) THEN acc
  ELSE LET nodeId == arrivalsByNode[i][1]
       IN IF ~MapHas(acc.state.graph.nodes, nodeId)
          THEN DispatchArrivals(arrivalsByNode, i + 1, acc)
          ELSE DispatchArrivals(arrivalsByNode, i + 1,
                 [state |-> handlers(acc.state, GetNode(acc.state, nodeId),
                                     arrivalsByNode[i][2]),
                  processedNodes |-> acc.processedNodes \cup {nodeId}])

\* The set left as the previous tick filled it.
keepProcessedNodes(processedNodesNow) == processedNodesNow

\* processedNodes.clear()
clearProcessedNodes(processedNodesNow) == {}

processArrivals(state, processedNodesNow) ==
  DispatchArrivals(GroupArrivals(state), 1,
                   [state |-> state,
                    processedNodes |-> clearProcessedNodes(processedNodesNow)])

runController(state) == executeController(state)

\* A spawn phase that skips no source.
neverProcessed(state, node) == FALSE

alreadyProcessed(state, node) ==
  \E i \in 1..Len(state.marbles) :
    /\ MapHas(state.graph.edges, state.marbles[i].edgeId)
    /\ MapGet(state.graph.edges, state.marbles[i].edgeId).from = node.id
    /\ state.marbles[i].progress = 0

RECURSIVE SpawnLoop(_, _)
SpawnLoop(state, i) ==
  IF i > Len(state.graph.nodes) THEN state
  ELSE LET node == state.graph.nodes[i][2]
       IN IF node.type = "source" /\ ~alreadyProcessed(state, node)
          THEN SpawnLoop(handleSource(state, node, <<>>), i + 1)
          ELSE SpawnLoop(state, i + 1)

\* A spawn phase that stops only above the ceiling.
spawnMarblesAboveCap(state) ==
  IF Len(state.marbles) > MAX_MARBLES THEN state ELSE SpawnLoop(state, 1)

spawnMarbles(state) ==
  IF Len(state.marbles) >= MAX_MARBLES THEN state ELSE SpawnLoop(state, 1)

RECURSIVE PeriodicLoop(_, _, _)
PeriodicLoop(state, processedNodesNow, i) ==
  IF i > Len(state.graph.nodes) THEN state
  ELSE LET node == state.graph.nodes[i][2]
       IN IF node.type \in PERIODIC_TYPES /\ node.id \notin processedNodesNow
          THEN PeriodicLoop(handlers(state, node, <<>>), processedNodesNow, i + 1)
          ELSE PeriodicLoop(state, processedNodesNow, i + 1)

\* A periodic phase that skips no node.
tickPeriodicNodesAll(state, processedNodesNow) == PeriodicLoop(state, {}, 1)

tickPeriodicNodes(state, processedNodesNow) == PeriodicLoop(state, processedNodesNow, 1)

\* Object identity of the marbles of the cloned list, for the span of a tick.
AttachRefs(state) ==
  [state EXCEPT !.marbles =
     [i \in 1..Len(state.marbles) |->
        [id |-> state.marbles[i].id, edgeId |-> state.marbles[i].edgeId,
         progress |-> state.marbles[i].progress, speed |-> state.marbles[i].speed,
         color |-> state.marbles[i].color, ref |-> i]]]

DetachRefs(state) ==
  [state EXCEPT !.marbles =
     [i \in 1..Len(state.marbles) |->
        [id |-> state.marbles[i].id, edgeId |-> state.marbles[i].edgeId,
         progress |-> state.marbles[i].progress, speed |-> state.marbles[i].speed,
         color |-> state.marbles[i].color]]]

\* The phases of tick after processArrivals, on [state, processedNodes];
\* threw: an exception left runController, and with it tick.
ControllerPhase(acc) ==
  [state |-> runController(acc.state), processedNodes |-> acc.processedNodes,
   threw |-> executeControllerThrows(acc.state)]

SpawnPhase(acc) == IF acc.threw THEN acc ELSE [acc EXCEPT !.state = spawnMarbles(@)]

PeriodicPhase(acc) ==
  IF acc.threw THEN acc ELSE [acc EXCEPT !.state = tickPeriodicNodes(@, acc.processedNodes)]

ReturnPhase(acc) == [acc EXCEPT !.state = DetachRefs(@)]

\* next.tickCount++ and the five phases, run on the clone.
RunPhases(next, processedNodesNow) ==
  ReturnPhase(PeriodicPhase(SpawnPhase(ControllerPhase(
    processArrivals(advanceMarbles(AttachRefs([next EXCEPT !.tickCount = @ + 1])),
                    processedNodesNow)))))

\* The heap maps object references to SimState values; structuredClone
\* allocates a fresh reference holding a deep copy.
Refs == 1..4

FreshRef(heapNow) == CHOOSE r \in Refs : r \notin DOMAIN heapNow

\* A copy that is the object itself.
sameObject(heapNow, ref) == [heap |-> heapNow, ref |-> ref]

structuredClone(heapNow, ref) ==
  [heap |-> (FreshRef(heapNow) :> heapNow[ref]) @@ heapNow, ref |-> FreshRef(heapNow)]

\* The clone, once the phases have run on it, is what tick returns.
ReturnClone(clone, r) ==
  [heap |-> [clone.heap EXCEPT ![clone.ref] = r.state],
   ref |-> clone.ref,
   processedNodes |-> r.processedNodes,
   threw |-> r.threw]

TickOnClone(clone, processedNodesNow) ==
  ReturnClone(clone, RunPhases(clone.heap[clone.ref], processedNodesNow))

\* tick(state): [heap, ref, processedNodes, threw], ref being the returned
\* state when tick did not throw.
tick(heapNow, ref, processedNodesNow) ==
  TickOnClone(structuredClone(heapNow, ref), processedNodesNow)

\* ------------------------------------------------------------------------
\* State
\* ------------------------------------------------------------------------

VARIABLES
  graph,           \* the SimGraph a client of the graph module holds
  call,            \* the client's last call on the graph module and what it returned
  heap,            \* object reference -> SimState value
  simState,        \* the simulation store's simState (a reference, 0 for null)
  prevState,       \* the simulation store's prevState (a reference, 0 for null)
  other,           \* the state a second, independent run holds (0 for none)
  processedNodes,  \* the engine module's processedNodes set
  toggles,         \* how many times a manual gate was clicked
  uncaught,        \* an exception left the store's last tick, and the tick loop with it
  host             \* the store's status and the tick loop's module state and frame requests

graphVars == <<graph, call>>

simVars == <<heap, simState, prevState, other, processedNodes, toggles, uncaught, host>>

vars == <<graph, call, heap, simState, prevState, other, processedNodes, toggles, uncaught, host>>

\* ------------------------------------------------------------------------
\* Numbers of seconds in the tick loop
\*
\* The loop's times are IEEE doubles.  All of them here are whole multiples
\* of 2^-58 s below 0.5 s (1/60 as a double is one, so is every frame time
\* of 1/64 s or more), so a time is the count of such units, written as
\* <<upper, lower>> with lower < Limb, and a sum or difference is the exact
\* one rounded to 53 significant bits, ties to even, as the hardware does.
\* ------------------------------------------------------------------------

\* 2^29
Limb == 536870912

\* The distance between neighbouring doubles at v, in units.
Spacing(v) ==
  IF v[1] >= 268435456 THEN 32
  ELSE IF v[1] >= 134217728 THEN 16
  ELSE IF v[1] >= 67108864 THEN 8
  ELSE IF v[1] >= 33554432 THEN 4
  ELSE IF v[1] >= 16777216 THEN 2
  ELSE 1

\* upper and lower digits of upper * Limb + lower, for 0 <= lower < 2 * Limb
Carry(upper, lower) == <<upper + (lower \div Limb), lower % Limb>>

RoundToEven(v, m) ==
  IF 2 * (v[2] % m) < m THEN <<v[1], v[2] - (v[2] % m)>>
  ELSE IF 2 * (v[2] % m) > m THEN Carry(v[1], (v[2] - (v[2] % m)) + m)
  ELSE IF (v[2] \div m) % 2 = 0 THEN <<v[1], v[2] - (v[2] % m)>>
  ELSE Carry(v[1], (v[2] - (v[2] % m)) + m)

\* a + b
DoubleAdd(a, b) ==
  RoundToEven(Carry(a[1] + b[1], a[2] + b[2]), Spacing(Carry(a[1] + b[1], a[2] + b[2])))

\* a - b, for a >= b
DoubleSub(a, b) ==
  IF a[2] >= b[2]
  THEN RoundToEven(<<a[1] - b[1], a[2] - b[2]>>, Spacing(<<a[1] - b[1], a[2] - b[2]>>))
  ELSE RoundToEven(<<(a[1] - b[1]) - 1, (a[2] + Limb) - b[2]>>,
                   Spacing(<<(a[1] - b[1]) - 1, (a[2] + Limb) - b[2]>>))

\* a >= b
DoubleGeq(a, b) == a[1] > b[1] \/ (a[1] = b[1] /\ a[2] >= b[2])

\* Math.min(a, b)
DoubleMin(a, b) == IF DoubleGeq(a, b) THEN b ELSE a

\* 1 / 60 as a double: 0.016666666666666666, a little below a sixtieth.
TICK_DT == <<8947848, 286331153>>

\* 0.25
MAX_ACCUMULATOR == <<134217728, 0>>

\* Milliseconds between two frames the host may let pass: a frame of a 60 Hz
\* display rounded either way, three frames likewise, and a stall.
ElapsedMs == {16, 17, 49, 51, 300}

\* (timestamp - lastTime) / 1000 for a difference of ms milliseconds: the
\* double nearest to ms thousandths.
Seconds(ms) ==
  CASE ms = 16 -> <<8589934, 317827580>>
    [] ms = 17 -> <<9126805, 270582940>>
    [] ms = 49 -> <<26306674, 369367188>>
    [] ms = 51 -> <<27380416, 274877906>>
    [] ms = 300 -> <<161061273, 322122544>>

\* status: 'idle'; rafId = null, lastTime = null, accumulator = 0;
\* interpolationAlpha: 0; no frame requested.  interpolationAlpha is kept as
\* the time it is the quotient of by TICK_DT.  pending are the ids of the
\* frame requests the host has still to call back, requested is the last id
\* requestAnimationFrame gave out, ticksInFrame the _tick calls of the last
\* frame callback, stepCalls the calls of step so far.
HostIdle ==
  [status |-> "idle", rafId |-> 0, lastTime |-> "null", accumulator |-> <<0, 0>>,
   interpolationAlpha |-> <<0, 0>>, pending |-> {}, requested |-> 0, ticksInFrame |-> 0,
   stepCalls |-> 0]

\* No simulation is running: the store holds null for both states.
SimIdle ==
  /\ heap = <<>>
  /\ simState = 0
  /\ prevState = 0
  /\ other = 0
  /\ processedNodes = {}
  /\ toggles = 0
  /\ uncaught = FALSE
  /\ host = HostIdle

\* ------------------------------------------------------------------------
\* A client of the graph module
\* ------------------------------------------------------------------------

\* Where the client puts its nodes: (0,0) and (3,4), a distance of 5 apart.
PositionOf(n) == IF n = "a" THEN [x |-> 0, y |-> 0] ELSE [x |-> 3, y |-> 4]

RampOf(n) == [id |-> n, type |-> "ramp", position |-> PositionOf(n)]

\* createEdge: length 0 until computeEdgeLengths
createEdge(id, from, fromHandle, to, toHandle) ==
  [id |-> id, from |-> from, fromHandle |-> fromHandle, to |-> to, toHandle |-> toHandle,
   length |-> 0]

EdgeInputs ==
  {createEdge(e, f, "output", t, "input") : e \in EdgeIds, f \in NodeIds, t \in NodeIds}

AdjWithin(g) == \A i \in 1..Len(g.adjacency) : Len(g.adjacency[i][2]) <= MaxAdjLen

InitGraph ==
  /\ graph = createEmptyGraph
  /\ call = [op |-> "createEmptyGraph", accepted |-> TRUE]
  /\ SimIdle

\* buildSimGraph is a constructor: it does not read the graph held so far.
BuildSimGraph ==
  /\ call.op = "createEmptyGraph"
  /\ \E ns \in {<<>>} \cup {<<RampOf(n)>> : n \in NodeIds}
                \cup {<<RampOf(n), RampOf(m)>> : n \in NodeIds, m \in NodeIds} :
       \E es \in {<<>>} \cup {<<e>> : e \in EdgeInputs}
                 \cup {<<e, f>> : e \in EdgeInputs, f \in EdgeInputs} :
         /\ graph' = buildSimGraph(ns, es)
         /\ call' = [op |-> "buildSimGraph", accepted |-> TRUE]
         /\ UNCHANGED simVars

AddNode ==
  \E n \in NodeIds :
    /\ graph' = addNode(graph, RampOf(n))
    /\ call' = [op |-> "addNode", accepted |-> TRUE]
    /\ UNCHANGED simVars

RemoveNode ==
  \E n \in NodeIds :
    /\ graph' = removeNode(graph, n)
    /\ call' = [op |-> "removeNode", accepted |-> TRUE]
    /\ UNCHANGED simVars

\* The caller branches on the result and keeps its graph on a failure.
AddEdge ==
  \E e \in EdgeInputs :
    LET r == addEdge(graph, e)
    IN /\ r.isGraph => AdjWithin(r.graph)
       /\ graph' = IF r.isGraph THEN r.graph ELSE graph
       /\ call' = [op |-> "addEdge", accepted |-> r.isGraph]
       /\ UNCHANGED simVars

RemoveEdge ==
  \E e \in EdgeIds :
    /\ graph' = removeEdge(graph, e)
    /\ call' = [op |-> "removeEdge", accepted |-> TRUE]
    /\ UNCHANGED simVars

\* Any sequence of mutator calls, starting from the empty graph.
NextMutators == AddNode \/ RemoveNode \/ AddEdge \/ RemoveEdge

SpecMutators == InitGraph /\ [][NextMutators]_vars

\* The same, with graphs that come from buildSimGraph as well.
NextGraph == BuildSimGraph \/ AddNode \/ RemoveNode \/ AddEdge \/ RemoveEdge

SpecGraph == InitGraph /\ [][NextGraph]_vars

\* ------------------------------------------------------------------------
\* A client of the canvas fill module: calls of cursorToGridPosition with a
\* cursor inside the grid.
\* ------------------------------------------------------------------------

\* Largest width and height of the grids the calls are made for.
MaxSide == 5

FillPatterns == {"left-to-right", "s-shaped", "top-to-bottom", "spiral"}

\* One call per run: the function reads nothing but its arguments.
CursorToGridPosition ==
  /\ call.op = "createEmptyGraph"
  /\ \E width \in 1..MaxSide, height \in 1..MaxSide, pattern \in FillPatterns :
       \E cursor \in 0..(width * height - 1) :
         call' = [op |-> "cursorToGridPosition", accepted |-> TRUE, cursor |-> cursor,
                  width |-> width, height |-> height, pattern |-> pattern,
                  position |-> cursorToGridPosition(cursor, width, height, pattern)]
  /\ UNCHANGED <<graph, simVars>>

SpecFill == InitGraph /\ [][CursorToGridPosition]_vars

\* ------------------------------------------------------------------------
\* Simulation states a client builds: nodes as createNode and the graph
\* store's conversion make them, indexed by buildSimGraph.
\* ------------------------------------------------------------------------

\* Steps a simulation is followed for: two edges' worth of travel, so that
\* marbles spawned in the first steps pass a node and reach the sink.
MaxTicks == 104

\* Steps a simulation with a manual gate is followed for: past the first
\* arrivals at the gate.
MaxGateTicks == 54

\* Clicks on a manual gate.
MaxToggles == 1

\* Steps each of two side-by-side runs makes.
MaxRunTicks == 5

Edge(id, from, to) == [id |-> id, from |-> from, to |-> to, fromHandle |-> "output"]

HandleEdge(id, from, to, handle) == [id |-> id, from |-> from, to |-> to, fromHandle |-> handle]

SourceNode(id, spawnRate, color) ==
  [id |-> id, type |-> "source", spawnRate |-> spawnRate,
   spawnCooldown |-> RoundedCooldown(spawnRate), marbleColor |-> color]

SinkNode(id) == [id |-> id, type |-> "sink", consumed |-> 0]

SplitterNode(id, ratio) == [id |-> id, type |-> "splitter", ratio |-> ratio]

ElevatorNode(id, delay) == [id |-> id, type |-> "elevator", delay |-> delay, queue |-> <<>>]

GateNode(id, condition) ==
  [id |-> id, type |-> "gate", condition |-> condition, isOpen |-> FALSE,
   heldMarbles |-> <<>>]

TickInterval(period) == [kind |-> "tickInterval", period |-> period]

MarbleCount(threshold) == [kind |-> "marbleCount", threshold |-> threshold, arrivedCount |-> 0]

Manual == [kind |-> "manual"]

BucketNode(id, capacity, releaseMode) ==
  [id |-> id, type |-> "bucket", capacity |-> capacity, currentFill |-> 0,
   releaseMode |-> releaseMode]

MARBLE_COLORS == <<"red", "blue", "green", "yellow", "black", "white", "orange", "purple">>

\* `output-${color}`
OutputHandle(color) ==
  CASE color = "red" -> "output-red"
    [] color = "blue" -> "output-blue"
    [] color = "green" -> "output-green"
    [] color = "yellow" -> "output-yellow"
    [] color = "black" -> "output-black"
    [] color = "white" -> "output-white"
    [] color = "orange" -> "output-orange"
    [] color = "purple" -> "output-purple"

emptyContents == [i \in 1..Len(MARBLE_COLORS) |-> <<MARBLE_COLORS[i], 0>>]

defaultOutputMap ==
  [i \in 1..Len(MARBLE_COLORS) |->
     <<MARBLE_COLORS[i], OutputHandle(MARBLE_COLORS[i])>>]

BasinNode(id, extractRate, extractColor) ==
  [id |-> id, type |-> "basin", contents |-> emptyContents, extractionMode |-> "active",
   extractRate |-> extractRate, extractCooldown |-> extractRate, extractColor |-> extractColor]

ColorSplitterNode(id) == [id |-> id, type |-> "colorSplitter", outputMap |-> defaultOutputMap]

SignalBufferNode(id, maxCapacity) ==
  [id |-> id, type |-> "signalBuffer", heldMarbles |-> <<>>, releaseCount |-> 0,
   maxCapacity |-> maxCapacity]

CanvasNode(id, width, height, fillPattern) ==
  [id |-> id, type |-> "canvas", width |-> width, height |-> height,
   fillPattern |-> fillPattern, grid |-> createEmptyGrid(width, height), cursor |-> 0]

\* {graph, marbles: [], tickCount: 0, rng: createRng(42)}
initSimState(nodes, edges, controllerCode) ==
  [graph |-> buildSimGraph(nodes, edges), marbles |-> <<>>, tickCount |-> 0,
   rng |-> createRng(42), controllerCode |-> controllerCode, controllerError |-> "null"]

\* 0.5 as a count of 65536ths
Half16 == 32768

TwoFeeders(node) ==
  initSimState(<<SourceNode("s1", 60, "red"), SourceNode("s2", 60, "blue"), node,
                 SinkNode("k")>>,
               <<Edge("e1", "s1", node.id), Edge("e2", "s2", node.id),
                 Edge("e3", node.id, "k")>>,
               <<>>)

OneFeeder(rate, color, node, code) ==
  initSimState(<<SourceNode("s1", rate, color), node, SinkNode("k")>>,
               <<Edge("e1", "s1", node.id), Edge("e3", node.id, "k")>>,
               code)

\* Two sources into a splitter with two outgoing edges.
TwoFeedersSplit(ratio) ==
  initSimState(<<SourceNode("s1", 60, "red"), SourceNode("s2", 60, "blue"),
                 SplitterNode("p", ratio), SinkNode("k"), RampOf("r")>>,
               <<Edge("e1", "s1", "p"), Edge("e2", "s2", "p"), Edge("e3", "p", "k"),
                 Edge("e4", "p", "r")>>,
               <<>>)

Scenarios ==
  << initSimState(<<SourceNode("s1", 1, "white"), SinkNode("k")>>,
                  <<Edge("e1", "s1", "k")>>, <<>>),
     initSimState(<<SourceNode("s1", 60, "white"), RampOf("r")>>,
                  <<Edge("e1", "s1", "r")>>, <<>>),
     OneFeeder(60, "white", RampOf("r"), <<>>),
     TwoFeeders(BucketNode("b", 3, "all")),
     OneFeeder(60, "white", BucketNode("b", 3, "all"), <<>>),
     OneFeeder(30, "white", BucketNode("b", 1, "all"), <<>>),
     TwoFeeders(BucketNode("b", 3, "overflow")),
     TwoFeeders(GateNode("g", Manual)),
     OneFeeder(30, "white", GateNode("g", Manual), <<>>),
     OneFeeder(60, "white", GateNode("g", TickInterval(4)), <<>>),
     TwoFeeders(GateNode("g", MarbleCount(3))),
     OneFeeder(60, "white", GateNode("g", MarbleCount(2)), <<>>),
     OneFeeder(60, "white", GateNode("g", TickInterval(3)), <<>>),
     TwoFeeders(GateNode("g", TickInterval(1))),
     initSimState(<<SourceNode("s1", 60, "white"), GateNode("g", TickInterval(4))>>,
                  <<Edge("e1", "s1", "g")>>, <<>>),
     OneFeeder(60, "white", ElevatorNode("v", 3), <<>>),
     TwoFeeders(BasinNode("n", 2, "null")),
     OneFeeder(60, "red", BasinNode("n", 3, "blue"),
               <<[call |-> "extractFromBasin", nodeId |-> "n", color |-> "red"]>>),
     OneFeeder(60, "white", SignalBufferNode("u", 2),
               <<[call |-> "releaseBuffer", nodeId |-> "u", count |-> 1],
                 [call |-> "throw", message |-> "boom"]>>),
     OneFeeder(60, "white", CanvasNode("c", 2, 2, "left-to-right"), <<>>),
     initSimState(<<SourceNode("s1", 30, "white"), SplitterNode("p", Half16),
                    SinkNode("k"), RampOf("r")>>,
                  <<Edge("e1", "s1", "p"), Edge("e2", "p", "k"), Edge("e3", "p", "r")>>,
                  <<>>),
     initSimState(<<SourceNode("s1", 60, "red"), SourceNode("s2", 60, "blue"),
                    ColorSplitterNode("p"), SinkNode("k")>>,
                  <<Edge("e1", "s1", "p"), Edge("e2", "s2", "p"),
                    HandleEdge("e3", "p", "k", OutputHandle("red"))>>,
                  <<>>),
     initSimState(<<SourceNode("s1", 60, "white"), SinkNode("k")>>,
                  <<Edge("e1", "s1", "k")>>, <<>>),
     initSimState(<<SourceNode("s1", 60, "white"), BucketNode("b", 3, "overflow")>>,
                  <<Edge("e1", "s1", "b")>>, <<>>),
     initSimState(<<SourceNode("s1", 60, "red"), SourceNode("s2", 20, "blue"),
                    SourceNode("s3", 60, "green"), SinkNode("k")>>,
                  <<Edge("e1", "s1", "s2"), Edge("e2", "s2", "k")>>, <<>>),
     OneFeeder(30, "white", ElevatorNode("v", 3), <<>>),
     OneFeeder(60, "red", BasinNode("n", 3, "blue"), <<>>),
     TwoFeeders(BasinNode("n", 2, "blue")),
     OneFeeder(60, "white", SignalBufferNode("u", 2), <<>>),
     TwoFeeders(CanvasNode("c", 3, 3, "spiral")),
     TwoFeeders(CanvasNode("c", 3, 2, "s-shaped")),
     OneFeeder(60, "white", CanvasNode("c", 2, 3, "top-to-bottom"), <<>>),
     OneFeeder(60, "white", CanvasNode("c", 3, 2, "spiral"), <<>>),
     TwoFeeders(CanvasNode("c", 3, 1, "left-to-right")),
     TwoFeedersSplit(0),
     TwoFeedersSplit(Half),
     TwoFeedersSplit(Half16),
     OneFeeder(60, "white", SplitterNode("p", Half16), <<>>) >>

\* ------------------------------------------------------------------------
\* Persistence.  A JSON value is a tagged record; a JSON text is the value
\* JSON.parse reads from it, or a text JSON.parse rejects.  A schema is a
\* record naming the zod check; safeParse keeps the keys an object schema
\* names and drops the others.
\* ------------------------------------------------------------------------

JString(s) == [t |-> "string", s |-> s]

JNumber(n) == [t |-> "number", n |-> n]

JBoolean(b) == [t |-> "boolean", b |-> b]

JNull == [t |-> "null"]

JArray(items) == [t |-> "array", items |-> items]

JObject(props) == [t |-> "object", props |-> props]

StringFields ==
  {"id", "type", "marbleColor", "releaseMode", "kind", "fillPattern", "extractionMode",
   "from", "to", "fromHandle", "toHandle", "marbleId", "color"}

NumberFields ==
  {"x", "y", "spawnRate", "spawnCooldown", "consumed", "ratio", "delay", "ticksRemaining",
   "threshold", "arrivedCount", "period", "capacity", "currentFill", "extractRate",
   "extractCooldown", "releaseCount", "maxCapacity", "width", "height", "cursor",
   "length", "version"}

ObjectFields == {"position", "condition"}

ObjectListFields == {"queue", "heldMarbles", "nodes", "edges"}

\* The own keys of an object, as a list.
RECURSIVE Keys(_)
Keys(S) ==
  IF S = {} THEN <<>>
  ELSE LET k == CHOOSE x \in S : TRUE IN <<k>> \o Keys(S \ {k})

NullOr(x) == IF x = "null" THEN JNull ELSE JString(x)

\* The JSON value JSON.stringify writes for the value of a field.
RECURSIVE Stringify(_, _)
RECURSIVE StringifyObject(_, _)
Stringify(k, x) ==
  CASE k \in StringFields -> JString(x)
    [] k \in NumberFields -> JNumber(x)
    [] k = "isOpen" -> JBoolean(x)
    [] k = "extractColor" -> NullOr(x)
    [] k \in ObjectFields -> StringifyObject(x, Keys(DOMAIN x))
    [] k \in ObjectListFields ->
         JArray([i \in 1..Len(x) |-> StringifyObject(x[i], Keys(DOMAIN x[i]))])
    [] k = "contents" -> JObject([i \in 1..Len(x) |-> <<x[i][1], JNumber(x[i][2])>>])
    [] k = "outputMap" -> JObject([i \in 1..Len(x) |-> <<x[i][1], JString(x[i][2])>>])
    [] k = "grid" ->
         JArray([r \in 1..Len(x) |-> JArray([c \in 1..Len(x[r]) |-> NullOr(x[r][c])])])

StringifyObject(x, keys) ==
  JObject([i \in 1..Len(keys) |-> <<keys[i], Stringify(keys[i], x[keys[i]])>>])

JSONstringify(payload) ==
  [kind |-> "json", value |-> StringifyObject(payload, Keys(DOMAIN payload))]

\* JSON.parse: the value, or the SyntaxError it throws.
JSONparse(json) ==
  IF json.kind = "json" THEN [ok |-> TRUE, value |-> json.value]
  ELSE [ok |-> FALSE, message |-> "Unexpected token"]

\* The value of a field as the program holds it: null is "null", a Record of
\* colours is a list of <<colour, value>>, any other object a record.
RECURSIVE Plain(_, _)
Plain(k, v) ==
  CASE v.t = "string" -> v.s
    [] v.t = "number" -> v.n
    [] v.t = "boolean" -> v.b
    [] v.t = "null" -> "null"
    [] v.t = "array" -> [i \in 1..Len(v.items) |-> Plain(k, v.items[i])]
    [] v.t = "object" ->
         IF k \in {"contents", "outputMap"}
         THEN [i \in 1..Len(v.props) |-> <<v.props[i][1], Plain(k, v.props[i][2])>>]
         ELSE [key \in MapKeySet(v.props) |-> Plain(key, MapGet(v.props, key))]

zString == [z |-> "string"]

zNumber == [z |-> "number"]

\* .positive() and .nonnegative() on whole numbers, .min(lo)
zNumberMin(lo) == [z |-> "numberMin", lo |-> lo]

zNumberRange(lo, hi) == [z |-> "numberRange", lo |-> lo, hi |-> hi]

zBoolean == [z |-> "boolean"]

zLiteral(s) == [z |-> "literal", value |-> s]

zLiteralNumber(n) == [z |-> "literalNumber", value |-> n]

zEnum(values) == [z |-> "enum", values |-> values]

zNullable(inner) == [z |-> "nullable", inner |-> inner]

zArray(element) == [z |-> "array", element |-> element]

zObject(shape) == [z |-> "object", shape |-> shape]

zUnion(options) == [z |-> "union", options |-> options]

\* z.record over an enum of keys: every key of the enum and no other
zRecord(keys, value) == [z |-> "record", keys |-> keys, value |-> value]

RECURSIVE Valid(_, _)
Valid(schema, v) ==
  CASE schema.z = "string" -> v.t = "string"
    [] schema.z = "number" -> v.t = "number"
    [] schema.z = "numberMin" -> v.t = "number" /\ v.n >= schema.lo
    [] schema.z = "numberRange" -> v.t = "number" /\ v.n >= schema.lo /\ v.n <= schema.hi
    [] schema.z = "boolean" -> v.t = "boolean"
    [] schema.z = "literal" -> v.t = "string" /\ v.s = schema.value
    [] schema.z = "literalNumber" -> v.t = "number" /\ v.n = schema.value
    [] schema.z = "enum" -> v.t = "string" /\ v.s \in schema.values
    [] schema.z = "nullable" -> v.t = "null" \/ Valid(schema.inner, v)
    [] schema.z = "array" ->
         v.t = "array" /\ \A i \in 1..Len(v.items) : Valid(schema.element, v.items[i])
    [] schema.z = "object" ->
         /\ v.t = "object"
         /\ \A i \in 1..Len(schema.shape) :
              /\ MapHas(v.props, schema.shape[i][1])
              /\ Valid(schema.shape[i][2], MapGet(v.props, schema.shape[i][1]))
    [] schema.z = "union" ->
         \E i \in 1..Len(schema.options) : Valid(schema.options[i], v)
    [] schema.z = "record" ->
         /\ v.t = "object"
         /\ MapKeySet(v.props) = schema.keys
         /\ \A i \in 1..Len(v.props) : Valid(schema.value, v.props[i][2])

\* The first option of a union the value passes.
FirstValid(options, v) ==
  CHOOSE i \in 1..Len(options) :
    /\ Valid(options[i], v)
    /\ \A j \in 1..(i - 1) : ~Valid(options[j], v)

\* result.data of a value that passed
RECURSIVE Parsed(_, _)
Parsed(schema, v) ==
  CASE schema.z = "nullable" -> IF v.t = "null" THEN v ELSE Parsed(schema.inner, v)
    [] schema.z = "array" ->
         JArray([i \in 1..Len(v.items) |-> Parsed(schema.element, v.items[i])])
    [] schema.z = "object" ->
         JObject([i \in 1..Len(schema.shape) |->
                    <<schema.shape[i][1],
                      Parsed(schema.shape[i][2], MapGet(v.props, schema.shape[i][1]))>>])
    [] schema.z = "union" -> Parsed(schema.options[FirstValid(schema.options, v)], v)
    [] schema.z = "record" ->
         JObject([i \in 1..Len(v.props) |->
                    <<v.props[i][1], Parsed(schema.value, v.props[i][2])>>])
    [] OTHER -> v

safeParse(schema, v) ==
  IF Valid(schema, v) THEN [success |-> TRUE, data |-> Parsed(schema, v)]
  ELSE [success |-> FALSE, error |-> [message |-> "Invalid input"]]

PositionSchema == zObject(<< <<"x", zNumber>>, <<"y", zNumber>> >>)

MarbleColorSchema == zEnum(SeqToSet(MARBLE_COLORS))

ElevatorQueueItemSchema ==
  zObject(<< <<"marbleId", zString>>, <<"ticksRemaining", zNumberMin(0)>>,
             <<"color", MarbleColorSchema>> >>)

HeldMarbleSchema == zObject(<< <<"id", zString>>, <<"color", MarbleColorSchema>> >>)

GateConditionSchema ==
  zUnion(<< zObject(<< <<"kind", zLiteral("marbleCount")>>, <<"threshold", zNumberMin(1)>>,
                       <<"arrivedCount", zNumberMin(0)>> >>),
            zObject(<< <<"kind", zLiteral("tickInterval")>>, <<"period", zNumberMin(1)>> >>),
            zObject(<< <<"kind", zLiteral("manual")>> >>) >>)

NodeShape(type, fields) ==
  zObject(<< <<"id", zString>>, <<"type", zLiteral(type)>>,
             <<"position", PositionSchema>> >> \o fields)

\* The discriminated union on `type` of the eleven node schemas.  Numbers
\* are in the model's units: a ratio in 65536ths.
SimNodeSchema ==
  zUnion(<<
    NodeShape("source", << <<"spawnRate", zNumberMin(1)>>,
                           <<"spawnCooldown", zNumberMin(0)>>,
                           <<"marbleColor", MarbleColorSchema>> >>),
    NodeShape("sink", << <<"consumed", zNumberMin(0)>> >>),
    NodeShape("splitter", << <<"ratio", zNumberRange(0, Half)>> >>),
    NodeShape("elevator", << <<"delay", zNumberMin(1)>>,
                             <<"queue", zArray(ElevatorQueueItemSchema)>> >>),
    NodeShape("ramp", <<>>),
    NodeShape("gate", << <<"condition", GateConditionSchema>>, <<"isOpen", zBoolean>>,
                         <<"heldMarbles", zArray(HeldMarbleSchema)>> >>),
    NodeShape("bucket", << <<"capacity", zNumberMin(1)>>, <<"currentFill", zNumberMin(0)>>,
                           <<"releaseMode", zEnum({"all", "overflow"})>> >>),
    NodeShape("basin", << <<"contents", zRecord(SeqToSet(MARBLE_COLORS), zNumberMin(0))>>,
                          <<"extractionMode", zEnum({"active", "passive"})>>,
                          <<"extractRate", zNumberMin(1)>>,
                          <<"extractCooldown", zNumberMin(0)>>,
                          <<"extractColor", zNullable(MarbleColorSchema)>> >>),
    NodeShape("colorSplitter",
              << <<"outputMap", zRecord(SeqToSet(MARBLE_COLORS), zString)>> >>),
    NodeShape("signalBuffer", << <<"heldMarbles", zArray(HeldMarbleSchema)>>,
                                 <<"releaseCount", zNumberMin(0)>>,
                                 <<"maxCapacity", zNumberMin(1)>> >>),
    NodeShape("canvas", << <<"width", zNumberMin(1)>>, <<"height", zNumberMin(1)>>,
                           <<"fillPattern",
                             zEnum({"left-to-right", "s-shaped", "top-to-bottom", "spiral"})>>,
                           <<"grid", zArray(zArray(zNullable(MarbleColorSchema)))>>,
                           <<"cursor", zNumberMin(0)>> >>) >>)

SimEdgeSchema ==
  zObject(<< <<"id", zString>>, <<"from", zString>>, <<"fromHandle", zString>>,
             <<"to", zString>>, <<"toHandle", zString>>, <<"length", zNumberMin(0)>> >>)

\* The document schema without the check of the version.
schemaOfAnyVersion ==
  zObject(<< <<"nodes", zArray(SimNodeSchema)>>, <<"edges", zArray(SimEdgeSchema)>> >>)

SerializedGraphSchema ==
  zObject(<< <<"version", zLiteralNumber(1)>>, <<"nodes", zArray(SimNodeSchema)>>,
             <<"edges", zArray(SimEdgeSchema)>> >>)

\* Math.sqrt of a perfect square
Sqrt(n) == CHOOSE r \in 0..n : r * r = n

distance(p1, p2) == Sqrt((p2.x - p1.x) * (p2.x - p1.x) + (p2.y - p1.y) * (p2.y - p1.y))

computeEdgeLengths(g) ==
  [g EXCEPT !.edges =
     [i \in 1..Len(g.edges) |->
        <<g.edges[i][1],
          [g.edges[i][2] EXCEPT !.length =
             IF MapHas(g.nodes, g.edges[i][2].from) /\ MapHas(g.nodes, g.edges[i][2].to)
             THEN distance(MapGet(g.nodes, g.edges[i][2].from).position,
                           MapGet(g.nodes, g.edges[i][2].to).position)
             ELSE @]>>]]

serializeGraph(g) ==
  JSONstringify([version |-> 1, nodes |-> MapValues(g.nodes), edges |-> MapValues(g.edges)])

\* The graph of a document that passed the schema.
GraphOfData(data) == computeEdgeLengths(buildSimGraph(data.nodes, data.edges))

ValidationOutcome(result) ==
  IF ~result.success
  THEN [ok |-> FALSE, error |-> <<"Validation failed", result.error.message>>]
  ELSE [ok |-> TRUE, graph |-> GraphOfData(Plain("", result.data))]

ParseOutcome(raw) ==
  IF ~raw.ok THEN [ok |-> FALSE, error |-> <<"Invalid JSON", raw.message>>]
  ELSE ValidationOutcome(safeParse(SerializedGraphSchema, raw.value))

deserializeGraph(json) == ParseOutcome(JSONparse(json))

\* ------------------------------------------------------------------------
\* A client of persistence: it edits its graph with the mutators, exports
\* and re-imports it, and, when it starts, loads a file.
\* ------------------------------------------------------------------------

Placed(node, position) ==
  [k \in DOMAIN node \cup {"position"} |-> IF k = "position" THEN position ELSE node[k]]

\* createNode(type, position): the defaults of each type (a 2 x 2 canvas in
\* place of 16 x 16).
createNode(type, id, position) ==
  Placed(CASE type = "source" -> SourceNode(id, 1, "white")
           [] type = "sink" -> SinkNode(id)
           [] type = "splitter" -> SplitterNode(id, Half16)
           [] type = "elevator" -> ElevatorNode(id, 30)
           [] type = "ramp" -> [id |-> id, type |-> "ramp"]
           [] type = "gate" -> GateNode(id, TickInterval(60))
           [] type = "bucket" -> BucketNode(id, 5, "all")
           [] type = "basin" -> BasinNode(id, 10, "null")
           [] type = "colorSplitter" -> ColorSplitterNode(id)
           [] type = "signalBuffer" -> SignalBufferNode(id, 50)
           [] type = "canvas" -> CanvasNode(id, 2, 2, "left-to-right"),
         position)

\* A graph with a node of every type, some of them part-way through a run.
SampleNodes ==
  << createNode("source", "a", PositionOf("a")),
     createNode("splitter", "b", PositionOf("b")),
     [createNode("sink", "c", PositionOf("a")) EXCEPT !.consumed = 2],
     [createNode("elevator", "d", PositionOf("b")) EXCEPT
        !.queue = <<[marbleId |-> "m-3-a-0", ticksRemaining |-> 7, color |-> "white"]>>],
     createNode("ramp", "f", PositionOf("a")),
     [createNode("gate", "g", PositionOf("b")) EXCEPT
        !.condition = MarbleCount(3),
        !.heldMarbles = <<[id |-> "m-4-a-1", color |-> "red"]>>],
     [createNode("gate", "h", PositionOf("a")) EXCEPT !.condition = Manual, !.isOpen = TRUE],
     [createNode("bucket", "i", PositionOf("b")) EXCEPT !.releaseMode = "overflow"],
     [createNode("basin", "j", PositionOf("a")) EXCEPT !.extractColor = "red"],
     createNode("gate", "k", PositionOf("b")),
     createNode("colorSplitter", "l", PositionOf("a")),
     createNode("signalBuffer", "m", PositionOf("b")),
     [createNode("canvas", "n", PositionOf("a")) EXCEPT
        !.grid = <<<<"red", "null">>, <<"null", "null">>>>, !.cursor = 1] >>

SampleEdges ==
  << createEdge("e1", "a", "output", "b", "input"),
     createEdge("e2", "b", "left", "c", "input") >>

SampleGraph == computeEdgeLengths(buildSimGraph(SampleNodes, SampleEdges))

Json(value) == [kind |-> "json", value |-> value]

WithoutKey(object, key) == JObject(SelectSeq(object.props, LAMBDA p : p[1] # key))

WithKey(object, key, v) == JObject(MapSet(object.props, key, v))

\* The document with element i of its "nodes" or "edges" list replaced.
WithItem(root, list, i, item) ==
  WithKey(root, list, JArray([MapGet(root.props, list).items EXCEPT ![i] = item]))

ItemOf(root, list, i) == MapGet(root.props, list).items[i]

\* One document for each key of element i, with that key deleted.
DropEachKey(root, list, i) ==
  [k \in 1..Len(ItemOf(root, list, i).props) |->
     Json(WithItem(root, list, i,
                   WithoutKey(ItemOf(root, list, i), ItemOf(root, list, i).props[k][1])))]

RECURSIVE DropEachKeyOfAll(_, _, _)
DropEachKeyOfAll(root, list, i) ==
  IF i > Len(MapGet(root.props, list).items) THEN <<>>
  ELSE DropEachKey(root, list, i) \o DropEachKeyOfAll(root, list, i + 1)

\* One document for each node, with an unknown type tag.
UnknownTypeEach(root) ==
  [i \in 1..Len(MapGet(root.props, "nodes").items) |->
     Json(WithItem(root, "nodes", i,
                   WithKey(ItemOf(root, "nodes", i), "type", JString("teleporter"))))]

SampleRoot == serializeGraph(SampleGraph).value

\* Files deserializeGraph takes.
GoodDocuments ==
  << serializeGraph(SampleGraph),
     serializeGraph(createEmptyGraph),
     Json(WithItem(SampleRoot, "nodes", 1,
                   WithKey(ItemOf(SampleRoot, "nodes", 1), "label", JString("start")))),
     Json(WithKey(SampleRoot, "name", JString("my machine"))) >>

\* Files that are no JSON, or whose version, lists, nodes or edges are not
\* as the format says.
BadDocuments ==
  << [kind |-> "text", chars |-> "not json at all"],
     [kind |-> "text", chars |-> ""],
     Json(WithKey(SampleRoot, "version", JNumber(99))),
     Json(WithKey(SampleRoot, "version", JNumber(0))),
     Json(WithKey(SampleRoot, "version", JString("1"))),
     Json(WithoutKey(SampleRoot, "version")),
     Json(WithKey(SampleRoot, "nodes", JString("bad"))),
     Json(WithKey(SampleRoot, "nodes", JObject(<<>>))),
     Json(WithoutKey(SampleRoot, "nodes")),
     Json(WithKey(SampleRoot, "edges", JNull)),
     Json(WithKey(SampleRoot, "edges", JObject(<<>>))),
     Json(WithoutKey(SampleRoot, "edges")) >>
  \o DropEachKeyOfAll(SampleRoot, "nodes", 1)
  \o DropEachKeyOfAll(SampleRoot, "edges", 1)
  \o UnknownTypeEach(SampleRoot)

Documents == GoodDocuments \o BadDocuments

\* A client that starts by loading a file keeps the graph it is given.
ImportFile ==
  /\ call.op = "createEmptyGraph"
  /\ \E d \in 1..Len(Documents) :
       \E r \in {deserializeGraph(Documents[d])} :
         /\ graph' = IF r.ok THEN r.graph ELSE graph
         /\ call' = [op |-> "deserializeGraph", accepted |-> r.ok, doc |-> d, result |-> r]
         /\ UNCHANGED simVars

\* Export the graph and read the export back.
ExportImport ==
  \E r \in {deserializeGraph(serializeGraph(graph))} :
    /\ call' = [op |-> "roundTrip", accepted |-> r.ok, result |-> r]
    /\ UNCHANGED <<graph, simVars>>

\* Nodes of the largest graph the client goes on editing.
MaxEditedNodes == 2

EditGraph ==
  /\ Len(graph.nodes) <= MaxEditedNodes
  /\ (AddNode \/ RemoveNode \/ AddEdge \/ RemoveEdge)

NextPersist == EditGraph \/ ExportImport \/ ImportFile

SpecPersist == InitGraph /\ [][NextPersist]_vars

\* ------------------------------------------------------------------------
\* The simulation store driving tick, and a click on a manual gate.
\* ------------------------------------------------------------------------

\* Objects no variable refers to any more are collected.
Collect(h, roots) == [r \in (roots \ {0}) \cap DOMAIN h |-> h[r]]

HasManualGate(state) ==
  \E i \in 1..Len(state.graph.nodes) :
    /\ state.graph.nodes[i][2].type = "gate"
    /\ state.graph.nodes[i][2].condition.kind = "manual"

\* How many ticks a run near the marble ceiling is followed for.
MaxCrowdTicks == 3

Horizon(state) ==
  IF Len(state.marbles) + 2 >= MAX_MARBLES THEN MaxCrowdTicks
  ELSE IF HasManualGate(state) THEN MaxGateTicks ELSE MaxTicks

Init ==
  /\ graph = createEmptyGraph
  /\ call = [op |-> "createEmptyGraph", accepted |-> TRUE]
  /\ \E i \in 1..Len(Scenarios) : heap = (1 :> Scenarios[i])
  /\ simState = 1
  /\ prevState = 0
  /\ other = 0
  /\ processedNodes = {}
  /\ toggles = 0
  /\ uncaught = FALSE
  /\ host = HostIdle

\* _tick: prev = simState; next = tick(simState); set({simState: next, prevState: prev})
\* When tick throws, set is not reached and the store keeps what it held.
StoreTick ==
  /\ simState # 0
  /\ ~uncaught
  /\ heap[simState].tickCount < Horizon(heap[simState])
  /\ \E r \in {tick(heap, simState, processedNodes)} :
       /\ simState' = IF r.threw THEN simState ELSE r.ref
       /\ prevState' = IF r.threw THEN prevState ELSE simState
       /\ heap' = Collect(r.heap, IF r.threw THEN {simState, prevState}
                                  ELSE {r.ref, simState})
       /\ processedNodes' = r.processedNodes
       /\ uncaught' = r.threw
  /\ UNCHANGED <<graph, call, other, toggles, host>>

\* handleToggle of the gate's view: flips isOpen of a manual gate, in place in
\* the store's current state.
handleToggle(heapNow, ref, id) ==
  IF ref = 0 THEN heapNow
  ELSE IF MapHas(heapNow[ref].graph.nodes, id)
          /\ GetNode(heapNow[ref], id).type = "gate"
          /\ GetNode(heapNow[ref], id).condition.kind = "manual"
       THEN [heapNow EXCEPT ![ref] =
               SetNode(@, [GetNode(@, id) EXCEPT !.isOpen = ~@])]
       ELSE heapNow

HandleToggle ==
  /\ simState # 0
  /\ toggles < MaxToggles
  /\ \E id \in MapKeySet(heap[simState].graph.nodes) :
       /\ GetNode(heap[simState], id).type = "gate"
       /\ GetNode(heap[simState], id).condition.kind = "manual"
       /\ heap' = handleToggle(heap, simState, id)
  /\ toggles' = toggles + 1
  /\ UNCHANGED <<graph, call, simState, prevState, other, processedNodes, uncaught, host>>

Next == StoreTick \/ HandleToggle

Spec == Init /\ [][Next]_vars

\* ------------------------------------------------------------------------
\* Runs from states a client puts together: a controller script attached,
\* or a marble on an edge that has since been deleted.
\* ------------------------------------------------------------------------

Release(nodeId, count) == [call |-> "releaseBuffer", nodeId |-> nodeId, count |-> count]

Extract(nodeId, color) == [call |-> "extractFromBasin", nodeId |-> nodeId, color |-> color]

SetColor(nodeId, color) == [call |-> "setBasinExtractColor", nodeId |-> nodeId, color |-> color]

\* throw new Error(message)
Throw(message) == [call |-> "throw", message |-> message]

\* throw 'text'
ThrowString == [call |-> "throwString"]

\* throw null
ThrowNull == [call |-> "throwNull"]

StrayMarble ==
  [id |-> <<"m", 0, "init", 1>>, edgeId |-> "gone", progress |-> ArrivalProgress - 2,
   speed |-> DEFAULT_MARBLE_SPEED, color |-> "red"]

\* n marbles at the start of the edge.
Crowd(n, edgeId) ==
  [i \in 1..n |->
     [id |-> <<"m", 0, "init", i>>, edgeId |-> edgeId, progress |-> 0,
      speed |-> DEFAULT_MARBLE_SPEED, color |-> "white"]]

BuiltStates ==
  << OneFeeder(60, "red", SignalBufferNode("u", 2), <<Release("u", 1)>>),
     OneFeeder(30, "red", SignalBufferNode("u", 5), <<Release("u", 2)>>),
     OneFeeder(30, "red", SignalBufferNode("u", 5), <<Release("u", 2), Release("u", 1)>>),
     OneFeeder(30, "red", BasinNode("n", 3, "null"), <<Extract("n", "red")>>),
     OneFeeder(60, "red", BasinNode("n", 3, "blue"), <<Extract("n", "red")>>),
     OneFeeder(30, "red", BasinNode("n", 3, "null"),
               <<SetColor("n", "blue"), Extract("n", "red")>>),
     OneFeeder(30, "red", BasinNode("n", 3, "null"), <<Throw("boom")>>),
     OneFeeder(30, "red", SignalBufferNode("u", 5), <<Release("u", 1), Throw("boom")>>),
     OneFeeder(30, "red", BasinNode("n", 3, "null"), <<ThrowString>>),
     OneFeeder(30, "red", BasinNode("n", 3, "null"), <<ThrowNull>>),
     [OneFeeder(60, "white", RampOf("r"), <<>>) EXCEPT !.marbles = <<StrayMarble>>],
     OneFeeder(60, "red", SignalBufferNode("u", 2), <<>>),
     TwoFeeders(SignalBufferNode("u", 3)),
     [TwoFeeders(SignalBufferNode("u", 3)) EXCEPT !.controllerCode = <<Release("u", 2)>>],
     [TwoFeeders(RampOf("r")) EXCEPT !.marbles = Crowd(MAX_MARBLES - 2, "e3")],
     [TwoFeeders(RampOf("r")) EXCEPT !.marbles = Crowd(MAX_MARBLES - 1, "e3")],
     [TwoFeeders(RampOf("r")) EXCEPT !.marbles = Crowd(MAX_MARBLES, "e3")] >>

InitBuilt ==
  /\ graph = createEmptyGraph
  /\ call = [op |-> "createEmptyGraph", accepted |-> TRUE]
  /\ \E i \in 1..Len(BuiltStates) : heap = (1 :> BuiltStates[i])
  /\ simState = 1
  /\ prevState = 0
  /\ other = 0
  /\ processedNodes = {}
  /\ toggles = 0
  /\ uncaught = FALSE
  /\ host = HostIdle

SpecBuilt == InitBuilt /\ [][StoreTick]_vars

\* ------------------------------------------------------------------------
\* Two independent runs of tick from one initial state, as the determinism
\* tests make them.  The runs are calls in one JavaScript realm, so they
\* share the engine module's processedNodes and interleave tick by tick.
\* ------------------------------------------------------------------------

\* Marbles already under way: two on every edge, due together after two ticks.
MarblesUnderWay(g) ==
  [k \in 1..(2 * Len(g.edges)) |->
     IF k % 2 = 1
     THEN [id |-> <<"m", 0, "init", k>>, edgeId |-> g.edges[(k + 1) \div 2][1],
           progress |-> ArrivalProgress - 2, speed |-> DEFAULT_MARBLE_SPEED,
           color |-> "red"]
     ELSE [id |-> <<"m", 0, "init", k>>, edgeId |-> g.edges[k \div 2][1],
           progress |-> ArrivalProgress - 6, speed |-> 3 * DEFAULT_MARBLE_SPEED,
           color |-> "blue"]]

Seeds == {42, 7}

StartTicks == {0, 1}

InitialStates ==
  {[Scenarios[i] EXCEPT !.marbles = IF w THEN MarblesUnderWay(Scenarios[i].graph) ELSE <<>>,
                        !.tickCount = t,
                        !.rng = createRng(seed)] :
     i \in 1..Len(Scenarios), w \in BOOLEAN, t \in StartTicks, seed \in Seeds}

InitRuns ==
  /\ graph = createEmptyGraph
  /\ call = [op |-> "createEmptyGraph", accepted |-> TRUE]
  /\ \E s \in InitialStates : heap = (1 :> s) @@ (2 :> s)
  /\ simState = 1
  /\ other = 2
  /\ prevState = 0
  /\ processedNodes = {}
  /\ toggles = 0
  /\ uncaught = FALSE
  /\ host = HostIdle

\* state = tick(state) in the first run
TickFirst ==
  /\ heap[simState].tickCount < MaxRunTicks
  /\ \E r \in {tick(heap, simState, processedNodes)} :
       /\ simState' = r.ref
       /\ heap' = Collect(r.heap, {r.ref, other})
       /\ processedNodes' = r.processedNodes
  /\ UNCHANGED <<graph, call, prevState, other, toggles, uncaught, host>>

\* state = tick(state) in the second run
TickSecond ==
  /\ heap[other].tickCount < MaxRunTicks
  /\ \E r \in {tick(heap, other, processedNodes)} :
       /\ other' = r.ref
       /\ heap' = Collect(r.heap, {r.ref, simState})
       /\ processedNodes' = r.processedNodes
  /\ UNCHANGED <<graph, call, prevState, simState, toggles, uncaught, host>>

NextRuns == TickFirst \/ TickSecond

SpecRuns == InitRuns /\ [][NextRuns]_vars

\* ------------------------------------------------------------------------
\* The simulation store's controls and the tick loop
\* ------------------------------------------------------------------------

\* marbles per second
DEFAULT_SPAWN_RATE == 1

\* Frame requests a run is followed for.
MaxRequests == 5

\* Calls of step a run is followed for.
MaxStepCalls == 2

\* rafId = requestAnimationFrame(loop)
RequestFrame(h) ==
  [h EXCEPT !.requested = @ + 1, !.rafId = h.requested + 1,
            !.pending = @ \cup {h.requested + 1}]

\* Nothing is cancelled: the stale request stays with the host.
stopTickLoopNoCancel(h) ==
  [h EXCEPT !.rafId = 0, !.lastTime = "null", !.accumulator = <<0, 0>>]

startTickLoop(h) ==
  IF h.rafId # 0 THEN h
  ELSE RequestFrame([h EXCEPT !.lastTime = "null", !.accumulator = <<0, 0>>])

stopTickLoop(h) ==
  [h EXCEPT !.pending = IF h.rafId # 0 THEN @ \ {h.rafId} ELSE @,
            !.rafId = 0, !.lastTime = "null", !.accumulator = <<0, 0>>]

\* The store's fields tick works on.
StoreFields == [heap |-> heap, simState |-> simState, prevState |-> prevState,
                processedNodes |-> processedNodes]

\* initSimState() of the store, for the editor's default graph (source-1 at
\* the default spawn rate wired to sink-1), as a new object.
WithInitSimState(st) ==
  [st EXCEPT !.heap = (1 :> initSimState(<<SourceNode("source-1", DEFAULT_SPAWN_RATE, "white"),
                                           SinkNode("sink-1")>>,
                                         <<Edge("edge-default-1", "source-1", "sink-1")>>,
                                         <<>>)),
             !.simState = 1, !.prevState = 0]

\* prev = simState; next = tick(simState); set({simState: next, prevState: prev})
\* The store's states carry no script, so tick returns.
SetTicked(st, r) ==
  [heap |-> Collect(r.heap, {r.ref, st.simState}), simState |-> r.ref,
   prevState |-> st.simState, processedNodes |-> r.processedNodes]

TickStore(st) ==
  IF st.simState = 0 THEN st
  ELSE SetTicked(st, tick(st.heap, st.simState, st.processedNodes))

\* while (accumulator >= TICK_DT) { store._tick(); accumulator -= TICK_DT }
RECURSIVE WhileAccumulated(_, _, _)
WhileAccumulated(st, accumulator, ticks) ==
  IF DoubleGeq(accumulator, TICK_DT)
  THEN WhileAccumulated(TickStore(st), DoubleSub(accumulator, TICK_DT), ticks + 1)
  ELSE [store |-> st, accumulator |-> accumulator, ticks |-> ticks]

\* store._setAlpha(accumulator / TICK_DT); rafId = requestAnimationFrame(loop)
AfterWhile(h, w) ==
  [store |-> w.store,
   host |-> RequestFrame([h EXCEPT !.lastTime = "set", !.accumulator = w.accumulator,
                                   !.interpolationAlpha = w.accumulator,
                                   !.ticksInFrame = w.ticks])]

\* The body of loop once status and lastTime are checked.
LoopBody(h, st, ms) ==
  AfterWhile(h, WhileAccumulated(st, DoubleAdd(h.accumulator,
                                               DoubleMin(Seconds(ms), MAX_ACCUMULATOR)), 0))

\* loop(timestamp), ms milliseconds after lastTime
loop(h, st, ms) ==
  IF h.status # "running" THEN [store |-> st, host |-> [h EXCEPT !.rafId = 0, !.ticksInFrame = 0]]
  ELSE IF h.lastTime = "null"
       THEN [store |-> st, host |-> RequestFrame([h EXCEPT !.lastTime = "set",
                                                           !.ticksInFrame = 0])]
       ELSE LoopBody(h, st, ms)

SetStore(st) ==
  /\ heap' = st.heap
  /\ simState' = st.simState
  /\ prevState' = st.prevState
  /\ processedNodes' = st.processedNodes

Start ==
  /\ host.status # "running"
  /\ host.requested < MaxRequests
  /\ SetStore(IF host.status = "idle" \/ simState = 0
              THEN WithInitSimState(StoreFields) ELSE StoreFields)
  /\ host' = startTickLoop([host EXCEPT !.status = "running"])
  /\ UNCHANGED <<graph, call, other, toggles, uncaught>>

Pause ==
  /\ host' = stopTickLoop([host EXCEPT !.status = "paused"])
  /\ UNCHANGED <<graph, call, heap, simState, prevState, other, processedNodes, toggles,
                 uncaught>>

Reset ==
  /\ host' = [stopTickLoop(host) EXCEPT !.status = "idle", !.interpolationAlpha = <<0, 0>>]
  /\ SetStore([heap |-> <<>>, simState |-> 0, prevState |-> 0,
               processedNodes |-> processedNodes])
  /\ UNCHANGED <<graph, call, other, toggles, uncaught>>

StepsMade == IF simState = 0 THEN 0 ELSE heap[simState].tickCount

Step ==
  /\ host.status # "running"
  /\ host.stepCalls < MaxStepCalls
  /\ SetStore(TickStore(IF simState = 0 THEN WithInitSimState(StoreFields) ELSE StoreFields))
  /\ host' = [host EXCEPT !.status = "paused", !.stepCalls = @ + 1]
  /\ UNCHANGED <<graph, call, other, toggles, uncaught>>

\* The host calls back one of the requests it holds.
Frame ==
  /\ host.requested < MaxRequests
  /\ \E id \in host.pending, ms \in ElapsedMs :
       \E r \in {loop([host EXCEPT !.pending = @ \ {id}], StoreFields, ms)} :
         /\ host' = r.host
         /\ SetStore(r.store)
  /\ UNCHANGED <<graph, call, other, toggles, uncaught>>

NextLoop == Start \/ Pause \/ Reset \/ Step \/ Frame

SpecLoop == InitGraph /\ [][NextLoop]_vars

\* C1: two runs of tick from the same initial state hold, whenever they have
\* made the same number of steps, the same marble list (ids, edges, progress,
\* colours, order), the same node state and the same generator state.
C1_RunsAgree ==
  heap[simState].tickCount = heap[other].tickCount => heap[simState] = heap[other]

\* Both runs have made three steps, marbles were rerouted on the way and the
\* generator was drawn from.
C1_Witness ==
  /\ other # 0
  /\ heap[simState].tickCount = 3
  /\ heap[other].tickCount = 3
  /\ \E i \in 1..Len(heap[simState].marbles) :
       /\ heap[simState].marbles[i].id[3] = "init"
       /\ heap[simState].marbles[i].progress < DEFAULT_MARBLE_SPEED + 1
  /\ heap[simState].rng # createRng(42)
  /\ heap[simState].rng # createRng(7)

\* ------------------------------------------------------------------------
\* Properties of a step
\* ------------------------------------------------------------------------

\* C2: tick leaves the state it was given exactly as it was (step counter,
\* marbles, node fields, generator) and returns another object, whose step
\* counter is the input's plus one.
C2_TickLeavesInput ==
  [][StoreTick =>
       /\ simState' # simState
       /\ simState \in DOMAIN heap'
       /\ heap'[simState] = heap[simState]
       /\ heap'[simState'].tickCount = heap[simState].tickCount + 1]_vars

\* The store holds the input of the last tick next to its result; the tick
\* moved marbles and changed node fields in the result.
C2_Witness ==
  /\ prevState # 0
  /\ simState # prevState
  /\ heap[prevState].marbles # <<>>
  /\ heap[simState].marbles # heap[prevState].marbles
  /\ heap[simState].graph.nodes # heap[prevState].graph.nodes
  /\ heap[simState].tickCount = heap[prevState].tickCount + 1

\* Every marble of the list is on an edge of the edge map.
OnEdges(state) ==
  \A i \in 1..Len(state.marbles) : MapHas(state.graph.edges, state.marbles[i].edgeId)

\* C6: if every marble's edge id is in the edge map before a step, every
\* marble of the state the step returns has an edge id in the edge map.
C6_EdgeIdsResolve ==
  [][StoreTick => (OnEdges(heap[simState]) => OnEdges(heap'[simState']))]_vars

\* A step has just put a marble of an earlier step at the start of an edge
\* (rerouted by a handler or released from a queue), and all marbles are on
\* edges of the map.
C6_Witness ==
  /\ prevState # 0
  /\ OnEdges(heap[prevState])
  /\ OnEdges(heap[simState])
  /\ \E i \in 1..Len(heap[simState].marbles) :
       /\ heap[simState].marbles[i].progress = 0
       /\ heap[simState].marbles[i].id[2] < heap[prevState].tickCount

\* C7: after every step every marble of the live list has 0 <= progress < 1.
C7_ProgressBelowOne ==
  simState # 0 =>
    \A i \in 1..Len(heap[simState].marbles) :
      /\ heap[simState].marbles[i].progress >= 0
      /\ heap[simState].marbles[i].progress < ArrivalProgress

\* The marble ids a node keeps in its queue.
QueuedIds(node) ==
  CASE node.type = "gate" ->
         [i \in 1..Len(node.heldMarbles) |-> node.heldMarbles[i].id]
    [] node.type = "signalBuffer" ->
         [i \in 1..Len(node.heldMarbles) |-> node.heldMarbles[i].id]
    [] node.type = "elevator" ->
         [i \in 1..Len(node.queue) |-> node.queue[i].marbleId]
    [] OTHER -> <<>>

RECURSIVE AllQueuedIds(_, _)
AllQueuedIds(nodes, i) ==
  IF i > Len(nodes) THEN <<>>
  ELSE QueuedIds(nodes[i][2]) \o AllQueuedIds(nodes, i + 1)

LiveIds(state) == [i \in 1..Len(state.marbles) |-> state.marbles[i].id]

NoRepeats(ids) == Cardinality(SeqToSet(ids)) = Len(ids)

\* C8: from an initial state with no marbles and empty queues, no id occurs
\* twice among the live marbles and the gate, elevator and buffer queues.
C8_IdsUnique ==
  simState # 0 =>
    NoRepeats(LiveIds(heap[simState]) \o AllQueuedIds(heap[simState].graph.nodes, 1))

\* Several marbles are live while a node holds several more in its queue.
C8_Witness ==
  /\ simState # 0
  /\ Len(heap[simState].marbles) >= 3
  /\ Len(AllQueuedIds(heap[simState].graph.nodes, 1)) >= 2

\* The [id, color] of the marbles of the list whose move in the coming step
\* takes them to the node, in list order.
ArrivingAt(state, nodeId) ==
  HeldOf(SelectSeq(state.marbles,
                   LAMBDA m : /\ MapHas(state.graph.edges, m.edgeId)
                              /\ MapGet(state.graph.edges, m.edgeId).to = nodeId
                              /\ m.progress + m.speed >= ArrivalProgress))

\* The [id, color] of the marbles at progress 0 on the edge, in list order.
AtStartOf(state, edgeId) ==
  HeldOf(SelectSeq(state.marbles, LAMBDA m : m.edgeId = edgeId /\ m.progress = 0))

NodesOfType(state, type) ==
  {id \in MapKeySet(state.graph.nodes) : GetNode(state, id).type = type}

ManualGates(state) ==
  {id \in NodesOfType(state, "gate") :
     /\ GetNode(state, id).condition.kind = "manual"
     /\ Len(getOutgoingEdges(state, id)) >= 1}

\* C9: a step of a closed manual gate appends the step's arrivals to the held
\* queue and puts nothing on the output edge; a step of an open one puts the
\* held marbles, then the step's arrivals, on the output edge at progress 0,
\* in arrival order, and leaves the queue empty.
C9_ManualGateFifo ==
  [][StoreTick =>
       \A g \in ManualGates(heap[simState]) :
         LET before == GetNode(heap[simState], g)
             after == GetNode(heap'[simState'], g)
             inOrder == before.heldMarbles \o ArrivingAt(heap[simState], g)
             released == AtStartOf(heap'[simState'],
                                   getOutgoingEdges(heap[simState], g)[1].id)
         IN IF before.isOpen
            THEN after.heldMarbles = <<>> /\ released = inOrder
            ELSE after.heldMarbles = inOrder /\ released = <<>>]_vars

\* The last step ran a manual gate that had been opened while it held two or
\* more marbles, and a marble arrived in that same step: all are on the
\* output edge and the queue is empty.
C9_Witness ==
  /\ prevState # 0
  /\ \E g \in ManualGates(heap[prevState]) :
       /\ GetNode(heap[prevState], g).isOpen
       /\ Len(GetNode(heap[prevState], g).heldMarbles) >= 2
       /\ Len(ArrivingAt(heap[prevState], g)) >= 1
       /\ GetNode(heap[simState], g).heldMarbles = <<>>
       /\ Len(AtStartOf(heap[simState], getOutgoingEdges(heap[prevState], g)[1].id)) >= 3

AllModeBuckets(state) ==
  {id \in NodesOfType(state, "bucket") :
     /\ GetNode(state, id).releaseMode = "all"
     /\ Len(getOutgoingEdges(state, id)) >= 1
     /\ GetNode(state, id).currentFill < GetNode(state, id).capacity}

\* C10: a step in which the fill of an 'all' bucket reaches or passes capacity
\* puts exactly capacity marbles at progress 0 on the output edge and sets the
\* fill to 0; a step in which it stays below puts none there; the fill is
\* below capacity after the step.
C10_BucketAllRelease ==
  [][StoreTick =>
       \A b \in AllModeBuckets(heap[simState]) :
         LET before == GetNode(heap[simState], b)
             after == GetNode(heap'[simState'], b)
             fill == before.currentFill + Len(ArrivingAt(heap[simState], b))
             emitted == AtStartOf(heap'[simState'],
                                  getOutgoingEdges(heap[simState], b)[1].id)
         IN /\ after.currentFill < after.capacity
            /\ IF fill >= before.capacity
               THEN Len(emitted) = before.capacity /\ after.currentFill = 0
               ELSE emitted = <<>> /\ after.currentFill = fill]_vars

\* The last step took the fill of an 'all' bucket past its capacity: capacity
\* marbles are on the output edge and the fill is 0.
C10_Witness ==
  /\ prevState # 0
  /\ \E b \in AllModeBuckets(heap[prevState]) :
       /\ GetNode(heap[prevState], b).currentFill + Len(ArrivingAt(heap[prevState], b))
            > GetNode(heap[prevState], b).capacity
       /\ GetNode(heap[simState], b).currentFill = 0
       /\ Len(AtStartOf(heap[simState], getOutgoingEdges(heap[prevState], b)[1].id))
            = GetNode(heap[prevState], b).capacity

OverflowBuckets(state) ==
  {id \in NodesOfType(state, "bucket") : GetNode(state, id).releaseMode = "overflow"}

\* C11: after every step the fill of an 'overflow' bucket is at most its
\* capacity, and the step put on the output edge exactly as many marbles as
\* the fill, with the step's arrivals counted in, was above capacity.
C11_OverflowClamp ==
  simState # 0 =>
    \A b \in OverflowBuckets(heap[simState]) :
      /\ GetNode(heap[simState], b).currentFill <= GetNode(heap[simState], b).capacity
      /\ (prevState # 0 /\ Len(getOutgoingEdges(heap[simState], b)) >= 1) =>
           Len(AtStartOf(heap[simState], getOutgoingEdges(heap[simState], b)[1].id))
             = Max(0, GetNode(heap[prevState], b).currentFill
                      + Len(ArrivingAt(heap[prevState], b))
                      - GetNode(heap[prevState], b).capacity)

\* The end-to-end scenario: a source of spawn rate 60 joined to a sink.
SourceToSink(state) ==
  /\ MapKeys(state.graph.nodes) = <<"s1", "k">>
  /\ GetNode(state, "s1").type = "source"
  /\ GetNode(state, "s1").spawnRate = 60
  /\ GetNode(state, "k").type = "sink"
  /\ MapKeys(state.graph.edges) = <<"e1">>
  /\ MapGet(state.graph.edges, "e1").from = "s1"
  /\ MapGet(state.graph.edges, "e1").to = "k"

\* The number of steps a marble of the default speed takes along an edge.
StepsPerEdge == ArrivalProgress \div DEFAULT_MARBLE_SPEED

\* C12 as stated: from the first spawn (step 1) on, the sink's consumed
\* counter goes up by exactly 1 every 50 steps.
C12_OnePerFiftySteps ==
  (simState # 0 /\ SourceToSink(heap[simState])) =>
    GetNode(heap[simState], "k").consumed
      = IF heap[simState].tickCount >= 1
        THEN (heap[simState].tickCount - 1) \div StepsPerEdge
        ELSE 0

\* C12 amended: the source spawns in every step from step 1, the sink's
\* consumed counter is 0 until the first marble arrives 50 steps after its
\* spawn, and from then on it goes up by exactly 1 in every step.
C12_OnePerStepAfterFifty ==
  (simState # 0 /\ SourceToSink(heap[simState])) =>
    /\ GetNode(heap[simState], "k").consumed
         = Max(0, heap[simState].tickCount - StepsPerEdge)
    /\ heap[simState].tickCount >= 1 =>
         Len(AtStartOf(heap[simState], "e1")) = 1

C12_Witness ==
  /\ simState # 0
  /\ SourceToSink(heap[simState])
  /\ heap[simState].tickCount = 2 * StepsPerEdge + 2
  /\ GetNode(heap[simState], "k").consumed = StepsPerEdge + 2

\* The marbles of the list on an edge that ends at the node.
BoundFor(state, nodeId) ==
  SelectSeq(state.marbles,
            LAMBDA m : /\ MapHas(state.graph.edges, m.edgeId)
                       /\ MapGet(state.graph.edges, m.edgeId).to = nodeId)

\* C13: a step adds to a sink's consumed counter exactly the number of marbles
\* whose progress reaches 1 on an edge into the sink in that step, and none of
\* them is in the marble list after the step; a marble on its way to a sink
\* is still below progress 1, so none is counted in a second step, and the
\* counter never goes down.
C13_SinkCountsOnce ==
  (simState # 0 /\ prevState # 0) =>
    \A k \in NodesOfType(heap[prevState], "sink") :
      /\ GetNode(heap[simState], k).consumed
           = GetNode(heap[prevState], k).consumed + Len(ArrivingAt(heap[prevState], k))
      /\ GetNode(heap[simState], k).consumed >= GetNode(heap[prevState], k).consumed
      /\ \A i \in 1..Len(ArrivingAt(heap[prevState], k)) :
           ArrivingAt(heap[prevState], k)[i].id \notin SeqToSet(LiveIds(heap[simState]))
      /\ \A i \in 1..Len(BoundFor(heap[simState], k)) :
           BoundFor(heap[simState], k)[i].progress < ArrivalProgress

\* Several marbles reached a sink in one step.
C13_Witness ==
  /\ simState # 0
  /\ prevState # 0
  /\ \E k \in NodesOfType(heap[prevState], "sink") :
       /\ Len(ArrivingAt(heap[prevState], k)) >= 2
       /\ GetNode(heap[prevState], k).consumed >= 1
       /\ GetNode(heap[simState], k).consumed
            = GetNode(heap[prevState], k).consumed + Len(ArrivingAt(heap[prevState], k))

\* ------------------------------------------------------------------------
\* Properties of the controller phase and of stray marbles
\* ------------------------------------------------------------------------

ThrowCalls == {"throw", "throwString", "throwNull"}

ScriptFails(state) ==
  \E i \in 1..Len(state.controllerCode) : state.controllerCode[i].call \in ThrowCalls

WithoutScript(state) == [state EXCEPT !.controllerCode = <<>>, !.controllerError = "null"]

\* What tick returns for the state.
TickResult(state) == RunPhases(state, {}).state

\* C18: a step of a state whose script throws ends with the failure as the
\* state's controllerError string and the step counter one higher, no
\* exception leaves the store's tick, and, the script having done nothing
\* before it threw, the rest of the state is what the step gives without the
\* script.
C18_ScriptFailureContained ==
  /\ ~uncaught
  /\ (simState # 0 /\ prevState # 0 /\ ScriptFails(heap[prevState])) =>
       /\ heap[simState].controllerError \notin {"null", "undefined"}
       /\ heap[simState].tickCount = heap[prevState].tickCount + 1
       /\ heap[prevState].controllerCode[1].call \in ThrowCalls =>
            WithoutScript(heap[simState])
              = WithoutScript(TickResult(WithoutScript(heap[prevState])))

\* The state the controller phase of the coming step starts from.
AfterArrivals(state) ==
  processArrivals(advanceMarbles(AttachRefs([state EXCEPT !.tickCount = @ + 1])), {}).state

\* The index of the script's last call of one of the kinds on the node, or 0.
LastCallOn(code, kinds, nodeId) ==
  LET I == {i \in 1..Len(code) : code[i].call \in kinds /\ code[i].nodeId = nodeId}
  IN IF I = {} THEN 0 ELSE CHOOSE i \in I : \A j \in I : j <= i

\* The buffers with an output edge that the script's last releaseBuffer tells
\* to release a positive number of marbles.
ReleasingBuffers(state) ==
  {u \in NodesOfType(state, "signalBuffer") :
     /\ Len(getOutgoingEdges(state, u)) >= 1
     /\ LastCallOn(state.controllerCode, {"releaseBuffer"}, u) > 0
     /\ state.controllerCode[LastCallOn(state.controllerCode, {"releaseBuffer"}, u)].count > 0}

BasinCalls == {"extractFromBasin", "setBasinExtractColor"}

\* The basins with an output edge whose last command of the script is an
\* extractFromBasin of a colour the basin holds when the script runs.
ExtractingBasins(state) ==
  {n \in NodesOfType(state, "basin") :
     /\ Len(getOutgoingEdges(state, n)) >= 1
     /\ LastCallOn(state.controllerCode, BasinCalls, n) > 0
     /\ state.controllerCode[LastCallOn(state.controllerCode, BasinCalls, n)].call
          = "extractFromBasin"
     /\ CountOf(GetNode(AfterArrivals(state), n).contents,
                state.controllerCode[LastCallOn(state.controllerCode, BasinCalls, n)].color)
          > 0}

ReleaseAsked(state, u) ==
  state.controllerCode[LastCallOn(state.controllerCode, {"releaseBuffer"}, u)].count

ColorAsked(state, n) ==
  state.controllerCode[LastCallOn(state.controllerCode, BasinCalls, n)].color

\* The step from `before` to `after` carried out the script's release on u.
ReleasedInStep(before, after, u) ==
  \A held \in {GetNode(AfterArrivals(before), u).heldMarbles} :
    AtStartOf(after, getOutgoingEdges(before, u)[1].id)
      = SubSeq(held, 1, Min(ReleaseAsked(before, u), Len(held)))

\* The step from `before` to `after` carried out the script's extraction on n.
ExtractedInStep(before, after, n) ==
  \E i \in 1..Len(AtStartOf(after, getOutgoingEdges(before, n)[1].id)) :
    AtStartOf(after, getOutgoingEdges(before, n)[1].id)[i].color = ColorAsked(before, n)

\* C19: at the end of a step whose script does not throw, the output edge of
\* a buffer told to release k > 0 carries the first min(k, held) marbles the
\* buffer held when the script ran, and the output edge of a basin told to
\* extract a colour it held carries a marble of that colour; of several
\* commands on one node the last counts.
C19_CommandInSameStep ==
  (simState # 0 /\ prevState # 0 /\ ~ScriptFails(heap[prevState])) =>
    /\ \A u \in ReleasingBuffers(heap[prevState]) :
         ReleasedInStep(heap[prevState], heap[simState], u)
    /\ \A n \in ExtractingBasins(heap[prevState]) :
         ExtractedInStep(heap[prevState], heap[simState], n)

\* C20: a step of a state that has a marble on an edge missing from the edge
\* map returns a state, one step later, that has no such marble among its
\* marbles.
C20_StrayMarbleDropped ==
  (simState # 0 /\ prevState # 0) =>
    /\ heap[simState].tickCount = heap[prevState].tickCount + 1
    /\ \A i \in 1..Len(heap[simState].marbles) :
         MapHas(heap[simState].graph.edges, heap[simState].marbles[i].edgeId)

\* ------------------------------------------------------------------------
\* Properties of the spawn phase
\* ------------------------------------------------------------------------

\* C21: the state a step returns never has more than MAX_MARBLES marbles,
\* the first state having at most that many.
C21_MarbleCeiling ==
  simState # 0 => Len(heap[simState].marbles) <= MAX_MARBLES

\* The state the spawn phase of the coming step starts from.
BeforeSpawn(state) == runController(AfterArrivals(state))

\* The spawn phase of the coming step is skipped.
Suppressed(state) == Len(BeforeSpawn(state).marbles) >= MAX_MARBLES

\* The ids of the marbles the node created in the state's step, in list order.
CreatedBy(state, nodeId) ==
  LiveIds([marbles |->
             SelectSeq(state.marbles,
                       LAMBDA m : m.id[2] = state.tickCount /\ m.id[3] = nodeId)])

\* C24: in a step whose spawn phase starts with MAX_MARBLES marbles or more,
\* every source ends the step as the spawn phase found it, cooldown included,
\* and has created no marble in that phase.
C24_SuppressedSpawn ==
  (simState # 0 /\ prevState # 0 /\ Suppressed(heap[prevState])) =>
    \A s \in NodesOfType(heap[prevState], "source") :
      /\ GetNode(heap[simState], s) = GetNode(BeforeSpawn(heap[prevState]), s)
      /\ CreatedBy(heap[simState], s) = CreatedBy(BeforeSpawn(heap[prevState]), s)

\* A step's spawn phase was skipped with a source one step from spawning.
C24_Witness ==
  /\ simState # 0
  /\ prevState # 0
  /\ heap[simState].tickCount = heap[prevState].tickCount + 1
  /\ Suppressed(heap[prevState])
  /\ \E s \in NodesOfType(heap[prevState], "source") :
       /\ Len(getOutgoingEdges(heap[prevState], s)) >= 1
       /\ GetNode(BeforeSpawn(heap[prevState]), s).spawnCooldown = 1

\* The marbles the node created in the state's step, in list order.
CreatedMarbles(state, nodeId) ==
  SelectSeq(state.marbles, LAMBDA m : m.id[2] = state.tickCount /\ m.id[3] = nodeId)

\* c = Math.round(60 / spawnRate): c <= 60 / spawnRate + 1/2 < c + 1.
IsRoundedCooldown(c, spawnRate) ==
  /\ 2 * c * spawnRate <= 120 + spawnRate
  /\ 120 + spawnRate < 2 * (c + 1) * spawnRate

Sources(state) == NodesOfType(state, "source")

\* The step from `before` to `after` took the source through one countdown
\* step: a spawn and a fresh cooldown if the countdown ended, one less if not.
SourceStepped(before, after, s) ==
  IF GetNode(before, s).spawnCooldown - 1 <= 0
  THEN /\ IsRoundedCooldown(GetNode(after, s).spawnCooldown, GetNode(before, s).spawnRate)
       /\ Len(CreatedMarbles(after, s)) = 1
       /\ CreatedMarbles(after, s)[1].edgeId = getOutgoingEdges(before, s)[1].id
       /\ CreatedMarbles(after, s)[1].progress = 0
       /\ CreatedMarbles(after, s)[1].color = GetNode(before, s).marbleColor
  ELSE /\ GetNode(after, s).spawnCooldown = GetNode(before, s).spawnCooldown - 1
       /\ CreatedMarbles(after, s) = <<>>

\* C22: in a step whose spawn phase is not skipped, a source with an outgoing
\* edge counts its cooldown down by one and, the cooldown having reached
\* zero, puts one marble of its colour at progress 0 on its first outgoing
\* edge and sets the cooldown to round(60 / spawnRate); a source without an
\* outgoing edge creates nothing and stays as it was.
C22_SourceSpawn ==
  (simState # 0 /\ prevState # 0 /\ ~uncaught /\ ~Suppressed(heap[prevState])) =>
    \A s \in Sources(heap[prevState]) :
      IF Len(getOutgoingEdges(heap[prevState], s)) >= 1
      THEN SourceStepped(heap[prevState], heap[simState], s)
      ELSE /\ GetNode(heap[simState], s) = GetNode(heap[prevState], s)
           /\ CreatedMarbles(heap[simState], s) = <<>>

\* In one step a source of a slower rate spawns, counting from a cooldown
\* above 1, while a source without outgoing edge stays as it was.
C22_Witness ==
  /\ simState # 0
  /\ prevState # 0
  /\ \E s \in Sources(heap[prevState]) :
       /\ Len(getOutgoingEdges(heap[prevState], s)) >= 1
       /\ GetNode(heap[simState], s).spawnCooldown > 1
       /\ Len(CreatedMarbles(heap[simState], s)) = 1
  /\ \E s \in Sources(heap[prevState]) : Len(getOutgoingEdges(heap[prevState], s)) = 0

Advanced(state) == advanceMarbles(AttachRefs([state EXCEPT !.tickCount = @ + 1]))

\* The marbles processArrivals hands to the node, in list order.
ArrivalsAt(advanced, nodeId) ==
  SelectSeq(advanced.marbles,
            LAMBDA m : /\ m.progress >= ArrivalProgress
                       /\ MapHas(advanced.graph.edges, m.edgeId)
                       /\ MapGet(advanced.graph.edges, m.edgeId).to = nodeId)

PeriodicNodes(state) ==
  {n \in MapKeySet(state.graph.nodes) : GetNode(state, n).type \in PERIODIC_TYPES}

\* The colours of the marbles at progress 0 on the edge, in list order.
ColorsAtStart(state, edgeId) ==
  [i \in 1..Len(AtStartOf(state, edgeId)) |-> AtStartOf(state, edgeId)[i].color]

\* `once` is the state one call of the node's handler leaves; the node and
\* the starts of its outgoing edges are in `after` as that one call left them,
\* and the node is among the processed nodes iff it had arrivals.
SameAsOnce(after, processedAfter, n, arrivals, once) ==
  /\ (n \in processedAfter) <=> (arrivals # <<>>)
  /\ GetNode(after, n) = GetNode(once, n)
  /\ \A i \in 1..Len(getOutgoingEdges(once, n)) :
       ColorsAtStart(after, getOutgoingEdges(once, n)[i].id)
         = ColorsAtStart(once, getOutgoingEdges(once, n)[i].id)

HandledOnce(before, after, processedAfter, n) ==
  SameAsOnce(after, processedAfter, n, ArrivalsAt(Advanced(before), n),
             handlers(Advanced(before), GetNode(before, n),
                      ArrivalsAt(Advanced(before), n)))

\* C25: a step of a state without script leaves every gate, basin and signal
\* buffer, and the starts of its outgoing edges, as one call of its handler
\* with the step's arrivals at the node (none, if none arrived) leaves them,
\* the call being made in the arrival phase exactly when marbles arrived.
C25_PeriodicOncePerStep ==
  [][(StoreTick /\ heap[simState].controllerCode = <<>>) =>
       \A n \in PeriodicNodes(heap[simState]) :
         HandledOnce(heap[simState], heap'[simState'], processedNodes', n)]_vars

\* After a step a basin that received marbles is among the processed nodes
\* and has counted its cooldown down by one.
C25_Witness ==
  /\ simState # 0
  /\ prevState # 0
  /\ heap[prevState].controllerCode = <<>>
  /\ \E n \in PeriodicNodes(heap[prevState]) \cap processedNodes :
       /\ GetNode(heap[prevState], n).type = "basin"
       /\ GetNode(heap[prevState], n).extractCooldown > 1
       /\ GetNode(heap[simState], n).extractCooldown
            = GetNode(heap[prevState], n).extractCooldown - 1

Elevators(state) ==
  {v \in NodesOfType(state, "elevator") : Len(getOutgoingEdges(state, v)) >= 1}

\* C26: a step takes one off the countdown of every marble queued in an
\* elevator that has an outgoing edge, in queue order, and puts the marbles
\* whose countdown was 1 at progress 0 on the output edge.
C26_ElevatorCountsDown ==
  [][StoreTick =>
       \A v \in Elevators(heap[simState]) :
         \A i \in 1..Len(GetNode(heap[simState], v).queue) :
           IF GetNode(heap[simState], v).queue[i].ticksRemaining <= 1
           THEN \E j \in 1..Len(AtStartOf(heap'[simState'],
                                         getOutgoingEdges(heap[simState], v)[1].id)) :
                  AtStartOf(heap'[simState'], getOutgoingEdges(heap[simState], v)[1].id)[j].id
                    = GetNode(heap[simState], v).queue[i].marbleId
           ELSE \E j \in 1..Len(GetNode(heap'[simState'], v).queue) :
                  /\ GetNode(heap'[simState'], v).queue[j].marbleId
                       = GetNode(heap[simState], v).queue[i].marbleId
                  /\ GetNode(heap'[simState'], v).queue[j].ticksRemaining
                       = GetNode(heap[simState], v).queue[i].ticksRemaining - 1]_vars

Basins(state) ==
  {n \in NodesOfType(state, "basin") : Len(getOutgoingEdges(state, n)) >= 1}

Colors == SeqToSet(MARBLE_COLORS)

\* What the basin holds of the colour once the coming step's arrivals are in.
HeldCount(state, n, c) ==
  CountOf(GetNode(state, n).contents, c)
    + Len(SelectSeq(ArrivingAt(state, n), LAMBDA m : m.color = c))

\* The step from `before` to `after` took one marble of colour c out of the
\* basin and put it on the output edge.
Emitted(before, after, n, c) ==
  /\ HeldCount(before, n, c) > 0
  /\ Len(CreatedMarbles(after, n)) = 1
  /\ CreatedMarbles(after, n)[1].color = c
  /\ CreatedMarbles(after, n)[1].edgeId = getOutgoingEdges(before, n)[1].id
  /\ CreatedMarbles(after, n)[1].progress = 0
  /\ \A d \in Colors :
       CountOf(GetNode(after, n).contents, d)
         = HeldCount(before, n, d) - (IF d = c THEN 1 ELSE 0)

\* C27: a step of a state without script in which the cooldown of a basin
\* with an outgoing edge ends while the basin holds a marble takes exactly
\* one marble out of it onto the output edge, of the target colour if the
\* basin holds that colour and of some held colour if not; no count of the
\* basin is negative.
C27_BasinExtracts ==
  [][(StoreTick /\ heap[simState].controllerCode = <<>>) =>
       \A n \in Basins(heap[simState]) :
         /\ \A d \in Colors : CountOf(GetNode(heap'[simState'], n).contents, d) >= 0
         /\ (/\ GetNode(heap[simState], n).extractCooldown - 1 <= 0
             /\ \E d \in Colors : HeldCount(heap[simState], n, d) > 0) =>
              IF /\ GetNode(heap[simState], n).extractColor # "null"
                 /\ HeldCount(heap[simState], n, GetNode(heap[simState], n).extractColor) > 0
              THEN Emitted(heap[simState], heap'[simState'], n,
                           GetNode(heap[simState], n).extractColor)
              ELSE \E c \in Colors : Emitted(heap[simState], heap'[simState'], n, c)]_vars

Buffers(state) == NodesOfType(state, "signalBuffer")

\* The step's arrivals at the buffer that find room in the queue.
Admitted(state, u) ==
  SubSeq(ArrivingAt(state, u), 1,
         Min(Len(ArrivingAt(state, u)),
             Max(0, GetNode(state, u).maxCapacity - Len(GetNode(state, u).heldMarbles))))

\* The queue once the step's arrivals are in.
QueueWith(state, u) == GetNode(state, u).heldMarbles \o Admitted(state, u)

IsSuffix(t, q) == Len(t) <= Len(q) /\ t = SubSeq(q, Len(q) - Len(t) + 1, Len(q))

\* C28: after a step a buffer holds at most maxCapacity marbles; its queue is
\* an end piece of the queue before the step followed by the arrivals that
\* found room, in arrival order; and an arrival that found none is neither
\* queued nor among the marbles.
C28_BufferCapacity ==
  [][(StoreTick /\ ~uncaught') =>
       \A u \in Buffers(heap[simState]) :
         /\ Len(GetNode(heap'[simState'], u).heldMarbles) <= GetNode(heap[simState], u).maxCapacity
         /\ IsSuffix(GetNode(heap'[simState'], u).heldMarbles, QueueWith(heap[simState], u))
         /\ \A i \in (Len(Admitted(heap[simState], u)) + 1)..Len(ArrivingAt(heap[simState], u)) :
              /\ ArrivingAt(heap[simState], u)[i].id \notin SeqToSet(LiveIds(heap'[simState']))
              /\ ArrivingAt(heap[simState], u)[i]
                   \notin SeqToSet(GetNode(heap'[simState'], u).heldMarbles)]_vars

\* Two marbles arrived in one step at a buffer with room for one: the first
\* was queued and the second was dropped.
C28_Witness ==
  /\ simState # 0
  /\ prevState # 0
  /\ ~uncaught
  /\ \E u \in Buffers(heap[prevState]) :
       /\ Len(ArrivingAt(heap[prevState], u)) = 2
       /\ Len(Admitted(heap[prevState], u)) = 1
       /\ GetNode(heap[simState], u).heldMarbles = QueueWith(heap[prevState], u)
       /\ Len(GetNode(heap[simState], u).heldMarbles) = GetNode(heap[prevState], u).maxCapacity

\* The release count the buffer's handler finds in the coming step: the
\* state's, if marbles arrive, and the one the script leaves, if not.
ReleaseCountFound(state, u) ==
  IF ArrivingAt(state, u) # <<>> THEN GetNode(state, u).releaseCount
  ELSE GetNode(BeforeSpawn(state), u).releaseCount

\* The release count the buffer's handler leaves in the coming step.
ReleaseCountLeft(before, after, u) ==
  IF ArrivingAt(before, u) # <<>> THEN GetNode(AfterArrivals(before), u).releaseCount
  ELSE GetNode(after, u).releaseCount

\* The step released the first r marbles of the buffer's queue.
ReleasedFirst(before, after, u, r) ==
  /\ GetNode(after, u).heldMarbles
       = SubSeq(QueueWith(before, u), r + 1, Len(QueueWith(before, u)))
  /\ \A i \in 1..Len(getOutgoingEdges(before, u)) :
       AtStartOf(after, getOutgoingEdges(before, u)[i].id)
         = IF i = 1 THEN SubSeq(QueueWith(before, u), 1, r) ELSE <<>>

\* C29: a step in which a buffer's handler finds release count 0 takes no
\* marble out of the queue; a step in which it finds k > 0 and an outgoing
\* edge puts the first min(k, queued) marbles of the queue, in order, at
\* progress 0 on the output edge, keeps the rest and leaves release count 0.
C29_BufferRelease ==
  [][(StoreTick /\ ~uncaught') =>
       \A u \in Buffers(heap[simState]) :
         IF ReleaseCountFound(heap[simState], u) > 0
              /\ Len(getOutgoingEdges(heap[simState], u)) >= 1
         THEN /\ ReleasedFirst(heap[simState], heap'[simState'], u,
                               Min(ReleaseCountFound(heap[simState], u),
                                   Len(QueueWith(heap[simState], u))))
              /\ ReleaseCountLeft(heap[simState], heap'[simState'], u) = 0
         ELSE ReleasedFirst(heap[simState], heap'[simState'], u, 0)]_vars

\* A step released two marbles of a queue of three, the oldest first.
C29_Witness ==
  /\ simState # 0
  /\ prevState # 0
  /\ ~uncaught
  /\ \E u \in Buffers(heap[prevState]) :
       /\ ReleaseCountFound(heap[prevState], u) = 2
       /\ Len(QueueWith(heap[prevState], u)) = 3
       /\ Len(GetNode(heap[simState], u).heldMarbles) = 1
       /\ AtStartOf(heap[simState], getOutgoingEdges(heap[prevState], u)[1].id)
            = SubSeq(QueueWith(heap[prevState], u), 1, 2)

Canvases(state) == NodesOfType(state, "canvas")

Cells(canvas) == (1..canvas.height) \X (1..canvas.width)

FilledCells(canvas) == {rc \in Cells(canvas) : canvas.grid[rc[1]][rc[2]] # "null"}

\* The grid cell, as <<row, column>> counted from 1, of the k-th marble the
\* canvas takes in.
CellOf(canvas, k) ==
  <<cursorToGridPosition(k - 1, canvas.width, canvas.height, canvas.fillPattern).row + 1,
    cursorToGridPosition(k - 1, canvas.width, canvas.height, canvas.fillPattern).col + 1>>

\* How many of the coming step's arrivals the canvas has cells left for.
Painted(state, c) ==
  Min(Len(ArrivingAt(state, c)),
      Max(0, GetNode(state, c).width * GetNode(state, c).height - GetNode(state, c).cursor))

\* C30: a step removes every marble that arrives at a canvas; the first
\* arrivals, as many as there are cells left, are written in order into the
\* cells the fill pattern gives for the cursor, each empty before the step,
\* and move the cursor on by one each; all other cells, and a full canvas,
\* stay as they were; after the step the filled cells are cursor many.
C30_CanvasFill ==
  [][StoreTick =>
       \A c \in Canvases(heap[simState]) :
         /\ \A i \in 1..Len(ArrivingAt(heap[simState], c)) :
              ArrivingAt(heap[simState], c)[i].id \notin SeqToSet(LiveIds(heap'[simState']))
         /\ GetNode(heap'[simState'], c).cursor
              = GetNode(heap[simState], c).cursor + Painted(heap[simState], c)
         /\ GetNode(heap'[simState'], c).cursor
              <= GetNode(heap[simState], c).width * GetNode(heap[simState], c).height
         /\ \A i \in 1..Painted(heap[simState], c) :
              /\ CellOf(GetNode(heap[simState], c), GetNode(heap[simState], c).cursor + i)
                   \in Cells(GetNode(heap[simState], c))
                     \ FilledCells(GetNode(heap[simState], c))
              /\ GetNode(heap'[simState'], c).grid
                   [CellOf(GetNode(heap[simState], c), GetNode(heap[simState], c).cursor + i)[1]]
                   [CellOf(GetNode(heap[simState], c), GetNode(heap[simState], c).cursor + i)[2]]
                   = ArrivingAt(heap[simState], c)[i].color
         /\ \A rc \in FilledCells(GetNode(heap[simState], c)) :
              GetNode(heap'[simState'], c).grid[rc[1]][rc[2]]
                = GetNode(heap[simState], c).grid[rc[1]][rc[2]]
         /\ Cardinality(FilledCells(GetNode(heap'[simState'], c)))
              = GetNode(heap'[simState'], c).cursor]_vars

\* Two marbles arrived at a canvas with one cell left: the first filled it,
\* the second was discarded.
C30_Witness ==
  /\ simState # 0
  /\ prevState # 0
  /\ \E c \in Canvases(heap[prevState]) :
       /\ Len(ArrivingAt(heap[prevState], c)) = 2
       /\ Painted(heap[prevState], c) = 1
       /\ Cardinality(FilledCells(GetNode(heap[simState], c)))
            = GetNode(heap[simState], c).width * GetNode(heap[simState], c).height
       /\ GetNode(heap[simState], c).cursor
            = GetNode(heap[simState], c).width * GetNode(heap[simState], c).height

\* ------------------------------------------------------------------------
\* Properties of the fill patterns
\* ------------------------------------------------------------------------

InGrid(position, width, height) ==
  /\ 0 <= position.row /\ position.row < height
  /\ 0 <= position.col /\ position.col < width

\* A quarter turn clockwise of a <<rows, columns>> direction.
TurnClockwise(dir) == <<dir[2], 0 - dir[1]>>

Ahead(position, dir) == [row |-> position.row + dir[1], col |-> position.col + dir[2]]

Free(position, width, height, visited) ==
  InGrid(position, width, height) /\ position \notin SeqToSet(visited)

\* The walk that goes straight on as long as the cell ahead is in the grid
\* and not yet visited, and otherwise turns clockwise.
RECURSIVE ClockwiseWalk(_, _, _, _, _)
ClockwiseWalk(width, height, visited, position, dir) ==
  IF Len(visited) + 1 = width * height THEN Append(visited, position)
  ELSE IF Free(Ahead(position, dir), width, height, Append(visited, position))
       THEN ClockwiseWalk(width, height, Append(visited, position),
                          Ahead(position, dir), dir)
       ELSE ClockwiseWalk(width, height, Append(visited, position),
                          Ahead(position, TurnClockwise(dir)), TurnClockwise(dir))

\* The cell the pattern's order visits as its (cursor + 1)-th: rows from the
\* top, each left to right; rows from the top, alternately left to right and
\* right to left; columns from the left, each top to bottom; the clockwise
\* walk from the top left corner heading right.
CellInOrder(cursor, width, height, pattern) ==
  CASE pattern = "left-to-right" ->
         CHOOSE p \in [row : 0..(height - 1), col : 0..(width - 1)] :
           p.row * width + p.col = cursor
    [] pattern = "s-shaped" ->
         CHOOSE p \in [row : 0..(height - 1), col : 0..(width - 1)] :
           p.row * width + (IF p.row % 2 = 0 THEN p.col ELSE width - 1 - p.col) = cursor
    [] pattern = "top-to-bottom" ->
         CHOOSE p \in [row : 0..(height - 1), col : 0..(width - 1)] :
           p.col * height + p.row = cursor
    [] pattern = "spiral" ->
         ClockwiseWalk(width, height, <<>>, [row |-> 0, col |-> 0], <<0, 1>>)[cursor + 1]

\* C36: for a grid of any width and height from 1 on and each of the four
\* patterns, the position cursorToGridPosition gives for a cursor from 0 to
\* width * height - 1 is in the grid, is given for no other such cursor, and
\* is the cell the pattern's order (row-major, boustrophedon, column-major,
\* clockwise spiral inwards) visits at that place.
C36_FillBijection ==
  call.op = "cursorToGridPosition" =>
    /\ InGrid(call.position, call.width, call.height)
    /\ \A other2 \in 0..(call.width * call.height - 1) :
         other2 # call.cursor =>
           cursorToGridPosition(other2, call.width, call.height, call.pattern) # call.position
    /\ call.position = CellInOrder(call.cursor, call.width, call.height, call.pattern)

\* The call for the last cell of the spiral on a grid of 5 columns and 3
\* rows: the middle row's second last cell, reached after one full ring.
C36_Witness ==
  /\ call.op = "cursorToGridPosition"
  /\ call.pattern = "spiral"
  /\ call.width = 5
  /\ call.height = 3
  /\ call.cursor = 14
  /\ call.position = [row |-> 1, col |-> 3]

\* ------------------------------------------------------------------------
\* Properties of the splitter and of the generator
\* ------------------------------------------------------------------------

Splitters(state) == NodesOfType(state, "splitter")

\* The generator after k draws.
RECURSIVE DrawsFrom(_, _)
DrawsFrom(rng, k) == IF k = 0 THEN rng ELSE DrawsFrom(nextFloat(rng).next, k - 1)

\* The marble of that id is at progress 0 on the edge.
AtStartWithId(state, id, edgeId) ==
  \E j \in 1..Len(state.marbles) :
    /\ state.marbles[j].id = id
    /\ state.marbles[j].edgeId = edgeId
    /\ state.marbles[j].progress = 0

\* Is the i-th draw from the generator below the ratio, given in 65536ths?
DrawBelow(rng, i, ratio) == nextFloat(DrawsFrom(rng, i - 1)).value[1] < ratio

\* C31: in a step of a graph with one splitter, the i-th marble arriving at
\* the splitter is at progress 0 on the first outgoing edge if the i-th draw
\* from the step's generator is below the ratio and on the second if not,
\* when the splitter has two outgoing edges or more, and on the only outgoing
\* edge when it has one; with ratio 1 all are on the first, with ratio 0 all
\* on the second.
C31_SplitterRouting ==
  [][StoreTick =>
       \A p \in Splitters(heap[simState]) :
         \A i \in 1..Len(ArrivingAt(heap[simState], p)) :
           /\ Len(getOutgoingEdges(heap[simState], p)) >= 2 =>
                /\ AtStartWithId(heap'[simState'], ArrivingAt(heap[simState], p)[i].id,
                     IF DrawBelow(heap[simState].rng, i, GetNode(heap[simState], p).ratio)
                     THEN getOutgoingEdges(heap[simState], p)[1].id
                     ELSE getOutgoingEdges(heap[simState], p)[2].id)
                /\ GetNode(heap[simState], p).ratio = Half =>
                     AtStartWithId(heap'[simState'], ArrivingAt(heap[simState], p)[i].id,
                                   getOutgoingEdges(heap[simState], p)[1].id)
                /\ GetNode(heap[simState], p).ratio = 0 =>
                     AtStartWithId(heap'[simState'], ArrivingAt(heap[simState], p)[i].id,
                                   getOutgoingEdges(heap[simState], p)[2].id)
           /\ Len(getOutgoingEdges(heap[simState], p)) = 1 =>
                AtStartWithId(heap'[simState'], ArrivingAt(heap[simState], p)[i].id,
                              getOutgoingEdges(heap[simState], p)[1].id)]_vars

\* Two marbles arrived in one step at a splitter of ratio 1/2 with two
\* outgoing edges, and the step put one on each edge.
C31_Witness ==
  /\ simState # 0
  /\ prevState # 0
  /\ \E p \in Splitters(heap[prevState]) :
       /\ Len(getOutgoingEdges(heap[prevState], p)) >= 2
       /\ Len(ArrivingAt(heap[prevState], p)) = 2
       /\ GetNode(heap[prevState], p).ratio = Half16
       /\ Len(AtStartOf(heap[simState], getOutgoingEdges(heap[prevState], p)[1].id)) = 1
       /\ Len(AtStartOf(heap[simState], getOutgoingEdges(heap[prevState], p)[2].id)) = 1

\* How many marbles of the list the coming step takes to a node of the set.
ArrivalCount(state, nodeIds) ==
  Len(SelectSeq(state.marbles,
                LAMBDA m : /\ MapHas(state.graph.edges, m.edgeId)
                           /\ MapGet(state.graph.edges, m.edgeId).to \in nodeIds
                           /\ m.progress + m.speed >= ArrivalProgress))

\* The splitters that choose between edges.
ChoosingSplitters(state) ==
  {p \in Splitters(state) : Len(getOutgoingEdges(state, p)) >= 2}

\* C32 as stated: the generator after a step is the generator before it
\* advanced by one draw per marble that arrived at a splitter in the step.
C32_DrawPerSplitterArrival ==
  [][StoreTick =>
       heap'[simState'].rng
         = DrawsFrom(heap[simState].rng,
                     ArrivalCount(heap[simState], Splitters(heap[simState])))]_vars

\* C32, amended: the generator after a step is the generator before it
\* advanced by one draw per marble that arrived in the step at a splitter with
\* two outgoing edges or more; marbles arriving at a splitter with fewer
\* outgoing edges, and all other nodes, leave it as it is.
C32_DrawPerChoice ==
  [][StoreTick =>
       heap'[simState'].rng
         = DrawsFrom(heap[simState].rng,
                     ArrivalCount(heap[simState], ChoosingSplitters(heap[simState])))]_vars

\* A step in which two marbles arrived at a splitter with two outgoing edges
\* has advanced the generator by two draws.
C32_Witness ==
  /\ simState # 0
  /\ prevState # 0
  /\ \E p \in ChoosingSplitters(heap[prevState]) : Len(ArrivingAt(heap[prevState], p)) = 2
  /\ heap[simState].rng = DrawsFrom(heap[prevState].rng, 2)
  /\ heap[simState].rng # heap[prevState].rng

\* ------------------------------------------------------------------------
\* Conservation in the bucket
\* ------------------------------------------------------------------------

\* C38: an 'all' bucket with an outgoing edge loses no marble: in every step
\* its fill before the step and the step's arrivals are, together, as many as
\* the marbles the step puts on the output edge and the fill it leaves; so
\* absorbed = emitted + currentFill in every state, both being 0 at the start.
C38_BucketConserves ==
  [][StoreTick =>
       \A b \in AllModeBuckets(heap[simState]) :
         GetNode(heap[simState], b).currentFill + Len(ArrivingAt(heap[simState], b))
           = Len(AtStartOf(heap'[simState'], getOutgoingEdges(heap[simState], b)[1].id))
               + GetNode(heap'[simState'], b).currentFill]_vars

\* ------------------------------------------------------------------------
\* Properties of the gates
\* ------------------------------------------------------------------------

\* The gates of the kind that have an outgoing edge.
GatesOfKind(state, kind) ==
  {g \in NodesOfType(state, "gate") :
     /\ GetNode(state, g).condition.kind = kind
     /\ Len(getOutgoingEdges(state, g)) >= 1}

\* The arrivals the gate has counted once those of the coming step are in.
GateCounted(state, g) ==
  GetNode(state, g).condition.arrivedCount + Len(ArrivingAt(state, g))

\* The gate's queue once the arrivals of the coming step are in.
GateQueueWith(state, g) == GetNode(state, g).heldMarbles \o ArrivingAt(state, g)

\* C33: a marble-count gate with an outgoing edge, closed with counter 0 at
\* the start, is closed after every step; a step that leaves the count below
\* the threshold adds its arrivals to the queue and to the counter and puts
\* nothing on the output edge; a step in which the count reaches the
\* threshold puts the whole queue, the step's arrivals last, at progress 0 on
\* the output edge in order, empties the queue and resets the counter to 0.
C33_CountGate ==
  [][StoreTick =>
       \A g \in GatesOfKind(heap[simState], "marbleCount") :
         /\ ~GetNode(heap'[simState'], g).isOpen
         /\ IF GateCounted(heap[simState], g) < GetNode(heap[simState], g).condition.threshold
            THEN /\ GetNode(heap'[simState'], g).condition.arrivedCount
                      = GateCounted(heap[simState], g)
                 /\ GetNode(heap'[simState'], g).heldMarbles = GateQueueWith(heap[simState], g)
                 /\ AtStartOf(heap'[simState'], getOutgoingEdges(heap[simState], g)[1].id) = <<>>
            ELSE /\ GetNode(heap'[simState'], g).condition.arrivedCount = 0
                 /\ GetNode(heap'[simState'], g).heldMarbles = <<>>
                 /\ AtStartOf(heap'[simState'], getOutgoingEdges(heap[simState], g)[1].id)
                      = GateQueueWith(heap[simState], g)]_vars

\* A step brought the count of a gate holding marbles to its threshold: the
\* gate released them with the step's arrivals and is closed with counter 0.
C33_Witness ==
  /\ simState # 0
  /\ prevState # 0
  /\ \E g \in GatesOfKind(heap[prevState], "marbleCount") :
       /\ GetNode(heap[prevState], g).heldMarbles # <<>>
       /\ ArrivingAt(heap[prevState], g) # <<>>
       /\ GateCounted(heap[prevState], g) >= GetNode(heap[prevState], g).condition.threshold
       /\ AtStartOf(heap[simState], getOutgoingEdges(heap[prevState], g)[1].id)
            = GateQueueWith(heap[prevState], g)
       /\ ~GetNode(heap[simState], g).isOpen
       /\ GetNode(heap[simState], g).condition.arrivedCount = 0

IntervalGates(state) ==
  {g \in NodesOfType(state, "gate") : GetNode(state, g).condition.kind = "tickInterval"}

\* (tickCount % period) < (period / 2), in whole numbers
InOpenHalf(tickCount, period) == 2 * (tickCount % period) < period

\* C34: after every step a tick-interval gate is open exactly when the step
\* counter modulo its period is below half the period, with or without
\* arrivals; closed, it holds its queue and the step's arrivals, in order;
\* open with an outgoing edge, its queue is empty.
C34_IntervalGate ==
  [][StoreTick =>
       \A g \in IntervalGates(heap[simState]) :
         /\ GetNode(heap'[simState'], g).isOpen
              <=> InOpenHalf(heap'[simState'].tickCount, GetNode(heap[simState], g).condition.period)
         /\ ~GetNode(heap'[simState'], g).isOpen
              => GetNode(heap'[simState'], g).heldMarbles = GateQueueWith(heap[simState], g)
         /\ (GetNode(heap'[simState'], g).isOpen /\ Len(getOutgoingEdges(heap[simState], g)) >= 1)
              => GetNode(heap'[simState'], g).heldMarbles = <<>>]_vars

\* A step opened a gate of period 4 that held two marbles and received a
\* third: the three are at the start of the output edge and the queue is empty.
C34_Witness ==
  /\ simState # 0
  /\ prevState # 0
  /\ \E g \in IntervalGates(heap[prevState]) :
       /\ GetNode(heap[prevState], g).condition.period = 4
       /\ ~GetNode(heap[prevState], g).isOpen
       /\ Len(GetNode(heap[prevState], g).heldMarbles) = 2
       /\ Len(ArrivingAt(heap[prevState], g)) = 1
       /\ GetNode(heap[simState], g).isOpen
       /\ GetNode(heap[simState], g).heldMarbles = <<>>
       /\ Len(getOutgoingEdges(heap[prevState], g)) >= 1
       /\ AtStartOf(heap[simState], getOutgoingEdges(heap[prevState], g)[1].id)
            = GateQueueWith(heap[prevState], g)

\* ------------------------------------------------------------------------
\* Properties of the tick loop and of the store's controls
\* ------------------------------------------------------------------------

\* C35: after every frame the accumulator is at least 0 and below TICK_DT,
\* the published interpolation fraction (the accumulator over TICK_DT) is at
\* least 0 and below 1, and the frame has run at most 15 steps.
C35_FrameBounded ==
  /\ DoubleGeq(host.accumulator, <<0, 0>>)
  /\ ~DoubleGeq(host.accumulator, TICK_DT)
  /\ DoubleGeq(host.interpolationAlpha, <<0, 0>>)
  /\ ~DoubleGeq(host.interpolationAlpha, TICK_DT)
  /\ host.ticksInFrame <= 15

\* C40: in every interleaving of start, pause, reset, step and frame
\* callbacks the host holds at most one frame request; a frame callback that
\* runs steps finds the status running, and the step count of a store that
\* is not running grows by a call of step only; a running store has a
\* simulation state.
C40_LoopDiscipline ==
  [][/\ Cardinality(host'.pending) <= 1
     /\ (Frame /\ host'.ticksInFrame > 0) => host.status = "running"
     /\ (host.status # "running" /\ StepsMade' > StepsMade) => Step
     /\ host'.status = "running" => simState' # 0]_vars

\* The loop runs again after a pause: a frame is requested, the loop's clock
\* is cleared, and the state the earlier frames stepped is kept.
C40_Witness ==
  /\ host.status = "running"
  /\ host.lastTime = "null"
  /\ host.requested >= 3
  /\ host.pending = {host.rafId}
  /\ host.ticksInFrame > 0
  /\ simState # 0
  /\ heap[simState].tickCount > 0

\* ------------------------------------------------------------------------
\* Persistence properties
\* ------------------------------------------------------------------------

SameEndpoints(e, f) ==
  /\ e.id = f.id
  /\ e.from = f.from
  /\ e.to = f.to
  /\ e.fromHandle = f.fromHandle
  /\ e.toHandle = f.toHandle

Occurrences(list, x) == Cardinality({i \in 1..Len(list) : list[i] = x})

\* The same lists up to their order, as the round-trip test compares them.
SameAdjacency(g, h) ==
  /\ MapKeySet(g.adjacency) = MapKeySet(h.adjacency)
  /\ \A n \in MapKeySet(g.adjacency) :
       \A e \in SeqToSet(MapGet(g.adjacency, n)) \cup SeqToSet(MapGet(h.adjacency, n)) :
         Occurrences(MapGet(g.adjacency, n), e) = Occurrences(MapGet(h.adjacency, n), e)

StructurallyEqual(g, h) ==
  /\ g.nodes = h.nodes
  /\ MapKeys(g.edges) = MapKeys(h.edges)
  /\ \A i \in 1..Len(g.edges) : SameEndpoints(g.edges[i][2], h.edges[i][2])
  /\ SameAdjacency(g, h)

\* C14: the import of a graph's export succeeds and gives a graph with the
\* same nodes (ids, types, fields), the same edges (endpoints, handles) and
\* the same adjacency.
C14_RoundTrip ==
  call.op = "roundTrip" =>
    /\ call.result.ok
    /\ StructurallyEqual(call.result.graph, graph)

\* C15: deserializeGraph answers a text that is no JSON, a version other than
\* 1, a nodes or edges entry that is no list, and a node or edge lacking one of
\* its fields or carrying an unknown type tag (the rest of the file being
\* good) with a failure that has a message and no graph; the client is left
\* without a graph.
C15_BadDocumentRejected ==
  (call.op = "deserializeGraph" /\ call.doc > Len(GoodDocuments)) =>
    /\ ~call.result.ok
    /\ DOMAIN call.result = {"ok", "error"}
    /\ call.result.error[1] \in {"Invalid JSON", "Validation failed"}
    /\ call.result.error[2] # ""
    /\ graph = createEmptyGraph

\* The file was the sample with one field of one node deleted.
C15_Witness ==
  /\ call.op = "deserializeGraph"
  /\ call.doc = Len(Documents) - Len(UnknownTypeEach(SampleRoot))
                  - Len(DropEachKeyOfAll(SampleRoot, "edges", 1))
  /\ ~call.result.ok
  /\ call.result.error[1] = "Validation failed"

\* ------------------------------------------------------------------------
\* Graph properties
\* ------------------------------------------------------------------------

\* The nodes reachable from the set S along the <<from, to>> pairs E.
RECURSIVE ReachSet(_, _)
ReachSet(E, S) ==
  LET S2 == S \cup {p[2] : p \in {q \in E : q[1] \in S}}
  IN IF S2 = S THEN S ELSE ReachSet(E, S2)

EdgePairs(edgeMap) == {<<edgeMap[i][2].from, edgeMap[i][2].to>> : i \in 1..Len(edgeMap)}

\* Inserting edge e into g puts e on a directed cycle (a self-loop included).
ClosesCycle(g, e) ==
  e.from \in ReachSet(EdgePairs(MapSet(g.edges, e.id, e)), {e.to})

\* The nodes of the directed cycles through e once e is inserted into g.
CycleNodes(g, e) ==
  LET E == EdgePairs(MapSet(g.edges, e.id, e))
  IN {n \in ReachSet(E, {e.to}) : e.from \in ReachSet(E, {n})}

AdjList(g, n) == IF MapHas(g.adjacency, n) THEN MapGet(g.adjacency, n) ELSE <<>>

OutEdgeIds(g, n) == {g.edges[i][1] : i \in {j \in 1..Len(g.edges) : g.edges[j][2].from = n}}

\* C3: after any sequence of addNode, removeNode, removeEdge and successful
\* addEdge calls from the empty graph, validateDAG returns valid.
C3_ValidAfterMutators == validateDAG(graph).valid

\* C4: an addEdge that would close a directed cycle returns a failure (so the
\* caller's graph stays as it was) and the failure names a node of the cycle.
C4_CycleEdgeRejected ==
  \A e \in EdgeInputs :
    ClosesCycle(graph, e) =>
      LET r == addEdge(graph, e)
      IN /\ ~r.isGraph
         /\ SeqToSet(r.errors[1]) \cap CycleNodes(graph, e) # {}

\* C5: for every id n, the adjacency list of n holds exactly the ids of the
\* edges of the edge map whose from is n, each once.
C5_AdjacencyInSync ==
  \A n \in NodeIds :
    /\ SeqToSet(AdjList(graph, n)) = OutEdgeIds(graph, n)
    /\ Len(AdjList(graph, n)) = Cardinality(OutEdgeIds(graph, n))

\* The ids of the edges of g that start or end at n.
TouchingEdgeIds(g, n) ==
  {g.edges[i][1] : i \in {j \in 1..Len(g.edges) :
       g.edges[j][2].from = n \/ g.edges[j][2].to = n}}

\* h is g without node n: n, its edges, its adjacency entry and every
\* listing of its edges are gone, and the rest is as in g, in g's order.
IsWithoutNode(h, g, n) ==
  /\ ~MapHas(h.nodes, n)
  /\ \A i \in 1..Len(h.edges) : h.edges[i][2].from # n /\ h.edges[i][2].to # n
  /\ ~MapHas(h.adjacency, n)
  /\ \A i \in 1..Len(h.adjacency) :
       SeqToSet(h.adjacency[i][2]) \cap TouchingEdgeIds(g, n) = {}
  /\ h.nodes = SelectSeq(g.nodes, LAMBDA p : p[1] # n)
  /\ h.edges = SelectSeq(g.edges, LAMBDA p : p[2].from # n /\ p[2].to # n)
  /\ MapKeys(h.adjacency) = SelectSeq(MapKeys(g.adjacency), LAMBDA k : k # n)
  /\ \A k \in MapKeySet(h.adjacency) :
       MapGet(h.adjacency, k)
         = SelectSeq(MapGet(g.adjacency, k), LAMBDA e : e \notin TouchingEdgeIds(g, n))

WellFormed(g) ==
  /\ \A i \in 1..Len(g.edges) :
       MapHas(g.nodes, g.edges[i][2].from) /\ MapHas(g.nodes, g.edges[i][2].to)
  /\ MapKeySet(g.adjacency) = MapKeySet(g.nodes)
  /\ \A n \in MapKeySet(g.nodes) :
       /\ SeqToSet(AdjList(g, n)) = OutEdgeIds(g, n)
       /\ Len(AdjList(g, n)) = Cardinality(OutEdgeIds(g, n))

Successors(g, n) == {p[2] : p \in {q \in EdgePairs(g.edges) : q[1] = n}}

\* The nodes of g that lie on a directed cycle.
OnCycle(g) ==
  {n \in MapKeySet(g.nodes) : n \in ReachSet(EdgePairs(g.edges), Successors(g, n))}

\* The nodes Kahn's algorithm never frees: those on a cycle and those that
\* can be reached from one.
NeverFreed(g) == ReachSet(EdgePairs(g.edges), OnCycle(g))

\* C17: on a well-formed graph validateDAG returns valid exactly when no node
\* lies on a directed cycle, and a failure lists, each once, exactly the
\* nodes whose in-degree never reached zero, every node of a cycle among
\* them.
C17_ValidIffAcyclic ==
  WellFormed(graph) =>
    \A v \in {validateDAG(graph)} :
      /\ v.valid <=> OnCycle(graph) = {}
      /\ ~v.valid =>
           /\ SeqToSet(v.errors[1]) = NeverFreed(graph)
           /\ Len(v.errors[1]) = Cardinality(NeverFreed(graph))
           /\ OnCycle(graph) \subseteq SeqToSet(v.errors[1])

\* A well-formed graph with a self-loop and an edge out of the loop: the
\* failure lists a node that is on no cycle.
C17_Witness ==
  /\ WellFormed(graph)
  /\ ~validateDAG(graph).valid
  /\ OnCycle(graph) # NeverFreed(graph)

\* C37: after any sequence of addNode, removeNode, removeEdge and accepted
\* addEdge calls on the empty graph, both endpoints of every edge are nodes
\* of the graph and every key of the adjacency index is a node id.
C37_EndpointsPresent ==
  /\ \A i \in 1..Len(graph.edges) :
       /\ MapHas(graph.nodes, graph.edges[i][2].from)
       /\ MapHas(graph.nodes, graph.edges[i][2].to)
  /\ \A i \in 1..Len(graph.adjacency) : MapHas(graph.nodes, graph.adjacency[i][1])

\* C39: the graph buildSimGraph returns passes validateDAG, whatever nodes
\* and edges it was given.
C39_ConstructorsAcyclic ==
  call.op = "buildSimGraph" => validateDAG(graph).valid

====
